---- MODULE Spec2Model ----
(***************************************************************************)
(* ANANYA-AI service (src/ai-service): the interaction analyzer, the bias  *)
(* detector, the adaptive engine and the text analyzer behind the POST     *)
(* endpoints of main.py, as a state machine.                               *)
(*                                                                         *)
(* Numbers: Flesch-Kincaid grades are kept in hundredths of a grade        *)
(* (12.0 -> 1200), confidences in hundredths (0.85 -> 85); ratios are      *)
(* compared by cross-multiplication.  A text is represented by the facts   *)
(* the lexical layer (textstat and the regular expressions) reads off it;  *)
(* the transformations that rewrite a text work on its characters.         *)
(***************************************************************************)
EXTENDS Integers, Sequences, FiniteSets, TLC

VARIABLES
    clock,                 \* datetime.utcnow(), in ticks
    hashSeed,              \* the process's string-hash seed (iteration order of sets)
    interaction_analyzer,  \* main.py:54, the shared InteractionAnalyzer instance
    bias_detector,         \* main.py:52, the shared BiasDetector instance
    adaptive_engine,       \* main.py:53, the shared AdaptiveEngine instance
    log                    \* the most recent responses sent, oldest first

vars == <<clock, hashSeed, interaction_analyzer, bias_detector, adaptive_engine, log>>

(***************************************************************************)
(* Bounds of the model.                                                    *)
(***************************************************************************)
MaxClock == 1

(***************************************************************************)
(* Program constants.                                                      *)
(***************************************************************************)
DEFAULT_SLOW_RESPONSE_MS == 10000
DEFAULT_FAST_RESPONSE_MS == 1000
DEFAULT_HIGH_CLARIFICATION_COUNT == 3
\* config.py, in hundredths of a grade
COMPLEXITY_THRESHOLD_HIGH == 1200
COMPLEXITY_THRESHOLD_MEDIUM == 800
SIMPLIFICATION_LEVELS == 3

(***************************************************************************)
(* Strings: Python compares them lexicographically (sorted) and hashes     *)
(* them with a per-process seed (set iteration).                           *)
(***************************************************************************)
Alphabet ==
    << "Cognition", "It", "The", "add_examples", "adjust_pace",
       "change_representation", "hence", "language_complexity", "pace_mismatch",
       "paradigm", "prior_exposure_gap", "representation_issue",
       "simplify_language", "therefore" >>

Ord(s) == CHOOSE i \in DOMAIN Alphabet : Alphabet[i] = s

\* the seeds a process may start with (PYTHONHASHSEED)
Seeds == {0, 1}

\* hash(str) under the process's seed: the two seeds order any two strings
\* oppositely
StrHash(s, seed) == IF seed = 0 THEN Ord(s) ELSE Len(Alphabet) + 1 - Ord(s)

RECURSIVE SeqByKey(_, _, _)
\* the elements of the finite set S as a sequence, ascending by key[x]
SeqByKey(S, key, acc) ==
    IF S = {} THEN acc
    ELSE LET x == CHOOSE y \in S : \A z \in S : key[y] <= key[z]
         IN SeqByKey(S \ {x}, key, Append(acc, x))

\* list(set(...)): the iteration order of a set of strings follows their hashes
ListOfSet(S, seed) == SeqByKey(S, [x \in S |-> StrHash(x, seed)], <<>>)

RECURSIVE Insert(_, _)
Insert(x, sortedSeq) ==
    IF sortedSeq = <<>> THEN <<x>>
    ELSE IF Ord(x) <= Ord(Head(sortedSeq)) THEN <<x>> \o sortedSeq
    ELSE <<Head(sortedSeq)>> \o Insert(x, Tail(sortedSeq))

RECURSIVE sorted(_)
\* sorted(list of str)
sorted(seq) == IF seq = <<>> THEN <<>> ELSE Insert(Head(seq), sorted(Tail(seq)))

Range(seq) == {seq[i] : i \in DOMAIN seq}

Take(seq, n) == SubSeq(seq, 1, IF Len(seq) < n THEN Len(seq) ELSE n)

\* dict.get(key, default)
Get(d, key, default) == IF key \in DOMAIN d THEN d[key] ELSE default

SelectIf(cond, seq) == IF cond THEN seq ELSE <<>>

(***************************************************************************)
(* Numbers.  statistics.mean and the arithmetic of _calculate_trend work   *)
(* on Python floats (IEEE-754 binary64, round to nearest, ties to even).   *)
(* A natural number of any size is the sequence of its limbs, least        *)
(* significant first, without a leading zero limb; a float is m * 2^e with *)
(* m a natural number of exactly 53 bits, or zero.                         *)
(***************************************************************************)
LimbBits == 15
Limb == 2^LimbBits
\* sys.float_info.mant_dig
MANT_DIG == 53

RECURSIVE NatOf(_)
NatOf(n) == IF n = 0 THEN <<>> ELSE <<n % Limb>> \o NatOf(n \div Limb)

RECURSIVE Trim(_)
Trim(x) ==
    IF x = <<>> THEN <<>>
    ELSE IF x[Len(x)] = 0 THEN Trim(SubSeq(x, 1, Len(x) - 1))
    ELSE x

RECURSIVE NatMulSmall(_, _, _)
\* x * c + carry, for c <= Limb
NatMulSmall(x, c, carry) ==
    IF x = <<>> THEN NatOf(carry)
    ELSE LET v == Head(x) * c + carry
         IN  <<v % Limb>> \o NatMulSmall(Tail(x), c, v \div Limb)

RECURSIVE NatAdd(_, _, _)
NatAdd(x, y, carry) ==
    IF x = <<>> /\ y = <<>> THEN NatOf(carry)
    ELSE LET a == IF x = <<>> THEN 0 ELSE Head(x)
             b == IF y = <<>> THEN 0 ELSE Head(y)
             v == a + b + carry
         IN  <<v % Limb>> \o NatAdd(IF x = <<>> THEN <<>> ELSE Tail(x),
                                    IF y = <<>> THEN <<>> ELSE Tail(y),
                                    v \div Limb)

RECURSIVE NatSubLimbs(_, _, _)
NatSubLimbs(x, y, borrow) ==
    IF x = <<>> THEN <<>>
    ELSE LET b == IF y = <<>> THEN 0 ELSE Head(y)
             v == Head(x) - b - borrow
         IN  <<v % Limb>> \o NatSubLimbs(Tail(x),
                                         IF y = <<>> THEN <<>> ELSE Tail(y),
                                         IF v < 0 THEN 1 ELSE 0)

\* x - y, for x >= y
NatSub(x, y) == Trim(NatSubLimbs(x, y, 0))

RECURSIVE NatMul(_, _)
NatMul(x, y) ==
    IF x = <<>> \/ y = <<>> THEN <<>>
    ELSE Trim(NatAdd(NatMulSmall(x, Head(y), 0), <<0>> \o NatMul(x, Tail(y)), 0))

RECURSIVE NatDivSmall(_, _)
\* <<x // d, x % d>>, for d <= Limb
NatDivSmall(x, d) ==
    IF x = <<>> THEN << <<>>, 0 >>
    ELSE LET r == NatDivSmall(Tail(x), d)
             v == r[2] * Limb + Head(x)
         IN  << Trim(<<v \div d>> \o r[1]), v % d >>

NatLess(x, y) ==
    IF Len(x) # Len(y) THEN Len(x) < Len(y)
    ELSE \E i \in DOMAIN x :
            /\ x[i] < y[i]
            /\ \A j \in (i + 1)..Len(x) : x[j] = y[j]

RECURSIVE BitLength(_)
\* int.bit_length
BitLength(n) == IF n = 0 THEN 0 ELSE 1 + BitLength(n \div 2)

NatBitLength(x) ==
    IF x = <<>> THEN 0 ELSE LimbBits * (Len(x) - 1) + BitLength(x[Len(x)])

\* x << n
NatShiftLeft(x, n) ==
    IF x = <<>> THEN <<>>
    ELSE [i \in 1..(n \div LimbBits) |-> 0] \o NatMulSmall(x, 2^(n % LimbBits), 0)

\* x >> n
NatShiftRight(x, n) ==
    IF n \div LimbBits >= Len(x) THEN <<>>
    ELSE NatDivSmall(SubSeq(x, n \div LimbBits + 1, Len(x)), 2^(n % LimbBits))[1]

NatOdd(x) == x # <<>> /\ x[1] % 2 = 1

\* x / 2^n rounded to the nearest natural number, ties to even
NatRoundShift(x, n) ==
    IF n = 0 THEN x
    ELSE LET q2 == NatShiftRight(x, n - 1)
             q == NatShiftRight(x, n)
             sticky == NatShiftLeft(q2, n - 1) # x
         IN  IF NatOdd(q2) /\ (sticky \/ NatOdd(q)) THEN NatAdd(q, <<>>, 1) ELSE q

RECURSIVE NatInt(_)
\* the natural number x as an int
NatInt(x) == IF x = <<>> THEN 0 ELSE Head(x) + Limb * NatInt(Tail(x))

\* x * 2^e rounded to a float
Float(x, e) ==
    LET n == NatBitLength(x)
        q == NatRoundShift(x, n - MANT_DIG)
    IN  IF x = <<>> THEN [m |-> <<>>, e |-> 0]
        ELSE IF n <= MANT_DIG
        THEN [m |-> NatShiftLeft(x, MANT_DIG - n), e |-> e - (MANT_DIG - n)]
        ELSE IF NatBitLength(q) > MANT_DIG
        THEN [m |-> NatShiftRight(q, 1), e |-> e + n - MANT_DIG + 1]
        ELSE [m |-> q, e |-> e + n - MANT_DIG]

\* float(n)
float_of_int(n) == Float(NatOf(n), 0)

\* n / d, int true division: the float nearest to the quotient.  The
\* quotient is taken to 2 * MANT_DIG bits with a sticky last bit.
float_of_fraction(n, d) ==
    LET scaled == NatDivSmall(NatShiftLeft(NatOf(n), 2 * MANT_DIG), d)
        sticky == IF scaled[2] # 0 THEN 1 ELSE 0
    IN  Float(NatAdd(NatShiftLeft(scaled[1], 1), <<>>, sticky), -(2 * MANT_DIG + 1))

\* the mantissas of a and b over their common exponent
Aligned(a, b) ==
    LET e == IF a.e < b.e THEN a.e ELSE b.e
    IN  [a |-> NatShiftLeft(a.m, a.e - e), b |-> NatShiftLeft(b.m, b.e - e), e |-> e]

\* a < b
float_less(a, b) == NatLess(Aligned(a, b).a, Aligned(a, b).b)

\* a * b
float_mul(a, b) == Float(NatMul(a.m, b.m), a.e + b.e)

\* a + b
float_add(a, b) == Float(NatAdd(Aligned(a, b).a, Aligned(a, b).b, 0), Aligned(a, b).e)

\* a - b, for a >= b
float_sub(a, b) == Float(NatSub(Aligned(a, b).a, Aligned(a, b).b), Aligned(a, b).e)

\* round(a), to an int
float_round(a) ==
    IF a.e >= 0 THEN NatInt(NatShiftLeft(a.m, a.e)) ELSE NatInt(NatRoundShift(a.m, -a.e))

RECURSIVE SumSeq(_)
\* sum(numbers)
SumSeq(numbers) ==
    IF numbers = <<>> THEN 0 ELSE Head(numbers) + SumSeq(Tail(numbers))

\* statistics.mean(data) for a non-empty list of ints: the exact mean,
\* converted to a float unless it is an int (an int of this size converts
\* to a float exactly wherever it is used)
statistics_mean(data) == float_of_fraction(SumSeq(data), Len(data))

\* round(a, 2) for 0 <= a <= 1, in hundredths: the multiple of 0.01 nearest
\* to the value of the float, ties to even
float_round2(a) == NatInt(NatRoundShift(NatMulSmall(a.m, 100, 0), -a.e))

(***************************************************************************)
(* modules/interaction_analyzer.py                                         *)
(***************************************************************************)
\* InteractionAnalyzer.__init__
InteractionAnalyzer ==
    [ slow_response_threshold |-> DEFAULT_SLOW_RESPONSE_MS,
      fast_response_threshold |-> DEFAULT_FAST_RESPONSE_MS,
      high_clarification_threshold |-> DEFAULT_HIGH_CLARIFICATION_COUNT ]

\* _classify_response_pattern with inclusive comparisons
_classify_response_pattern_ge(self, response_time_ms, action_type) ==
    IF action_type = "clarification" THEN "seeking_help"
    ELSE IF response_time_ms >= self.slow_response_threshold THEN "deliberate"
    ELSE IF response_time_ms <= self.fast_response_threshold THEN "quick"
    ELSE "normal"

_classify_response_pattern(self, response_time_ms, action_type) ==
    IF action_type = "clarification" THEN "seeking_help"
    ELSE IF response_time_ms > self.slow_response_threshold THEN "deliberate"
    ELSE IF response_time_ms < self.fast_response_threshold THEN "quick"
    ELSE "normal"

\* _assess_engagement testing the short time on content first
_assess_engagement_low_first(time_on_content, action_type, clarification_count) ==
    IF time_on_content < 5 THEN "low"
    ELSE IF action_type = "question" \/ clarification_count > 0 THEN "high"
    ELSE IF time_on_content > 60 THEN "high"
    ELSE "medium"

_assess_engagement(time_on_content, action_type, clarification_count) ==
    IF action_type = "question" \/ clarification_count > 0 THEN "high"
    ELSE IF time_on_content > 60 THEN "high"
    ELSE IF time_on_content < 5 THEN "low"
    ELSE "medium"

_build_comprehension_indicators(self, interaction) ==
    LET response_speed ==
            IF interaction.response_time_ms > self.slow_response_threshold
            THEN "taking_time"
            ELSE IF interaction.response_time_ms < self.fast_response_threshold
            THEN "quick"
            ELSE "normal"
        help_seeking ==
            interaction.clarification_count > 0
            \/ interaction.action_type = "clarification"
        indicators ==
            [ response_speed |-> response_speed,
              help_seeking |-> help_seeking,
              persistence |-> TRUE,
              content_engagement |-> "present" ]
    IN  IF interaction.is_repeated_error
        THEN indicators @@ ("may_benefit_from" :> "alternative_explanation")
        ELSE indicators

\* _determine_adaptations without the slow-response rule
_determine_adaptations_no_slow(self, interaction, indicators) ==
    LET adaptations ==
            SelectIf(interaction.is_repeated_error,
                     <<"add_examples", "change_representation">>)
            \o SelectIf(interaction.clarification_count
                            >= self.high_clarification_threshold,
                        <<"simplify_language">>)
    IN  <<Len(adaptations) > 0, adaptations>>

\* _determine_adaptations suggesting each type once
_determine_adaptations_dedup(self, interaction, indicators) ==
    LET slow == indicators.response_speed = "taking_time"
        many == interaction.clarification_count >= self.high_clarification_threshold
        adaptations ==
            SelectIf(slow \/ many, <<"simplify_language">>)
            \o SelectIf(interaction.is_repeated_error,
                        <<"add_examples", "change_representation">>)
    IN  <<Len(adaptations) > 0, adaptations>>

_determine_adaptations(self, interaction, indicators) ==
    LET adaptations ==
            SelectIf(indicators.response_speed = "taking_time",
                     <<"simplify_language">>)
            \o SelectIf(interaction.is_repeated_error,
                        <<"add_examples", "change_representation">>)
            \o SelectIf(interaction.clarification_count
                            >= self.high_clarification_threshold,
                        <<"simplify_language">>)
    IN  <<Len(adaptations) > 0, adaptations>>

analyze_single_interaction(self, interaction) ==
    LET response_pattern ==
            _classify_response_pattern(self, interaction.response_time_ms,
                                       interaction.action_type)
        engagement_level ==
            _assess_engagement(interaction.time_on_content_seconds,
                               interaction.action_type,
                               interaction.clarification_count)
        comprehension_indicators == _build_comprehension_indicators(self, interaction)
        determined == _determine_adaptations(self, interaction, comprehension_indicators)
    IN  [ session_hash |-> interaction.session_hash,
          response_pattern |-> response_pattern,
          engagement_level |-> engagement_level,
          comprehension_indicators |-> comprehension_indicators,
          requires_adaptation |-> determined[1],
          suggested_adaptations |-> determined[2] ]

\* an analyzer that tunes its slow threshold to the last response time
analyzer_after_call_tuned(self, interaction) ==
    [self EXCEPT !.slow_response_threshold = interaction.response_time_ms]

\* the analyzer instance after a call: no method assigns to self
analyzer_after_call(self, interaction) == self

\* threshold = 0.1
TREND_THRESHOLD == float_of_fraction(1, 10)

\* (1 - threshold) and (1 + threshold)
TREND_LOWER == float_sub(float_of_int(1), TREND_THRESHOLD)
TREND_UPPER == float_add(float_of_int(1), TREND_THRESHOLD)

_calculate_trend(values) ==
    LET midpoint == Len(values) \div 2
        first_half_avg == statistics_mean(SubSeq(values, 1, midpoint))
        second_half_avg == statistics_mean(SubSeq(values, midpoint + 1, Len(values)))
    IN  IF Len(values) < 3 THEN "insufficient_data"
        ELSE IF float_less(second_half_avg, float_mul(first_half_avg, TREND_LOWER))
        THEN "improving"
        ELSE IF float_less(float_mul(first_half_avg, TREND_UPPER), second_half_avg)
        THEN "struggling"
        ELSE "stable"

\* the 0.3 of "repeated_errors > len(interactions) * 0.3"
ERROR_RATIO == float_of_fraction(3, 10)

\* analyze_interaction_sequence past its first test: the statistics of a
\* non-empty list and the pattern they give
_sequence_pattern(self, interactions) ==
    LET response_times ==
            [i \in DOMAIN interactions |-> interactions[i].response_time_ms]
        avg_response == statistics_mean(response_times)
        response_trend == _calculate_trend(response_times)
        total_clarifications ==
            SumSeq([i \in DOMAIN interactions |-> interactions[i].clarification_count])
        repeated_errors ==
            Cardinality({i \in DOMAIN interactions : interactions[i].is_repeated_error})
        \* len(interactions) * 0.3 is the float nearest to the product
        error_limit == float_mul(float_of_int(Len(interactions)), ERROR_RATIO)
        summary ==
            IF float_less(float_of_int(self.slow_response_threshold), avg_response)
            THEN <<"struggling", "high">>
            ELSE IF float_less(error_limit, float_of_int(repeated_errors))
            THEN <<"persistent_difficulty", "high">>
            ELSE IF total_clarifications > Len(interactions) * 2
            THEN <<"needs_clarification", "medium">>
            ELSE IF response_trend = "improving"
            THEN <<"progressing", "low">>
            ELSE <<"stable", "low">>
    IN  [ pattern_summary |-> summary[1],
          trend |-> response_trend,
          adaptation_urgency |-> summary[2],
          metrics |->
            [ avg_response_time_ms |-> float_round(avg_response),
              total_clarifications |-> total_clarifications,
              repeated_error_rate |->
                  float_round2(float_of_fraction(repeated_errors, Len(interactions))),
              interaction_count |-> Len(interactions) ] ]

\* analyze_interaction_sequence without its first test: statistics.mean of
\* an empty list raises StatisticsError
analyze_interaction_sequence_unguarded(self, interactions) ==
    IF interactions = <<>> THEN [raised |-> "StatisticsError"]
    ELSE _sequence_pattern(self, interactions)

\* analyze_interaction_sequence testing the rules in another order
analyze_interaction_sequence_trend_first(self, interactions) ==
    LET found == _sequence_pattern(self, interactions)
    IN  IF interactions = <<>>
        THEN [ pattern_summary |-> "insufficient_data", trend |-> "neutral",
               adaptation_urgency |-> "low" ]
        ELSE IF found.trend = "improving"
        THEN [found EXCEPT !.pattern_summary = "progressing",
                           !.adaptation_urgency = "low"]
        ELSE found

analyze_interaction_sequence(self, interactions) ==
    IF interactions = <<>>
    THEN [ pattern_summary |-> "insufficient_data", trend |-> "neutral",
           adaptation_urgency |-> "low" ]
    ELSE _sequence_pattern(self, interactions)

(***************************************************************************)
(* InteractionData (models/schemas.py): response_time_ms,                  *)
(* clarification_count and time_on_content_seconds are >= 0.               *)
(***************************************************************************)
ResponseTimes == {999, 1000, 1001, 10000, 10001, 25000}
ActionTypes == {"read", "question", "clarification"}
ClarificationCounts == {0, 1, 2, 3}
TimesOnContent == {4, 5, 60, 61}

Interactions ==
    [ session_hash : {"s1"},
      response_time_ms : ResponseTimes,
      action_type : ActionTypes,
      is_repeated_error : BOOLEAN,
      clarification_count : ClarificationCounts,
      time_on_content_seconds : TimesOnContent ]

Entry(op, req, res) == [op |-> op, req |-> req, res |-> res]

\* the log keeps the last `window` responses
Logged(window, entry) ==
    IF Len(log) < window THEN Append(log, entry)
    ELSE IF window = 1 THEN <<entry>>
    ELSE Append(Tail(log), entry)

\* POST /analyze-interaction (main.py)
post_analyze_interaction(interaction, window) ==
    /\ log' = Logged(window,
                     Entry("analyze-interaction", interaction,
                           analyze_single_interaction(interaction_analyzer,
                                                      interaction)))
    /\ interaction_analyzer' = analyzer_after_call(interaction_analyzer, interaction)
    /\ UNCHANGED <<clock, hashSeed, bias_detector, adaptive_engine>>

\* a call of interaction_analyzer.analyze_interaction_sequence
call_analyze_interaction_sequence(interactions, window) ==
    /\ log' = Logged(window,
                     Entry("analyze-interaction-sequence", interactions,
                           analyze_interaction_sequence(interaction_analyzer,
                                                        interactions)))
    /\ interaction_analyzer' = interaction_analyzer
    /\ UNCHANGED <<clock, hashSeed, bias_detector, adaptive_engine>>

(***************************************************************************)
(* utils/text_analysis.py.  A text is a record of the facts the analyzer   *)
(* reads off it:                                                           *)
(*   id            the text itself (two texts are equal iff their ids are) *)
(*   len           len(text);  stripped_len  len(text.strip())             *)
(*   fk_grade      textstat.flesch_kincaid_grade(text), in hundredths      *)
(*   academic      for each of the four academic_markers patterns, the set *)
(*                 of words re.findall returns on text.lower()             *)
(*   long_sentences  the number of sentences of more than 30 words         *)
(*   complex_words   the number of distinct words of >= 3 syllables        *)
(*   example_markers "for example"/"e.g."/"for instance"/"such as" occurs  *)
(*   example_colon   "example:" occurs                                     *)
(*   has_numbers   re.search(r'\d+');  has_lists  a line starts "- ", ...  *)
(*   concepts      the capitalized and the quoted phrases of the text      *)
(*   newlines, paragraphs, sentences: text.count('\n'),                    *)
(*                 len(text.split('\n\n')), len(re.split(sentence end))    *)
(*   list_chars    one of the markers bullet, '-', '*', '1.', '2.' occurs  *)
(*   simplified    per level, what simplify_text yields: its grade, the    *)
(*                 number of words replaced, whether sentences were added  *)
(*   inline_terms  _add_inline_examples annotates a complex word           *)
(*   pause_point   a sentence end lies in [midpoint, midpoint + 50) of the *)
(*                 paced content                                           *)
(***************************************************************************)
\* what textstat computes for an index that no caller reads
Textstat(index, text) == <<index, text.id>>

get_readability_metrics(text) ==
    IF text.len = 0 \/ text.stripped_len < 10
    THEN [ flesch_kincaid_grade |-> 0, flesch_reading_ease |-> 10000,
           gunning_fog |-> 0, smog_index |-> 0, automated_readability_index |-> 0,
           coleman_liau_index |-> 0, dale_chall_readability |-> 0 ]
    ELSE [ flesch_kincaid_grade |-> text.fk_grade,
           flesch_reading_ease |-> text.reading_ease,
           gunning_fog |-> Textstat("gunning_fog", text),
           smog_index |-> Textstat("smog_index", text),
           automated_readability_index |->
               Textstat("automated_readability_index", text),
           coleman_liau_index |-> Textstat("coleman_liau_index", text),
           dale_chall_readability |-> Textstat("dale_chall_readability_score", text) ]

\* get_complexity_level with exclusive cut points
get_complexity_level_lt(flesch_kincaid_grade) ==
    IF flesch_kincaid_grade < 600 THEN "simple"
    ELSE IF flesch_kincaid_grade < 1000 THEN "moderate"
    ELSE "complex"

get_complexity_level(flesch_kincaid_grade) ==
    IF flesch_kincaid_grade <= 600 THEN "simple"
    ELSE IF flesch_kincaid_grade <= 1000 THEN "moderate"
    ELSE "complex"

\* one academic_language entry per marker pattern that matched, in pattern
\* order, then the long_sentences entry
identify_jargon_patterns(text, seed) ==
    LET entry(i) ==
            SelectIf(text.academic[i] # {},
                     << [type |-> "academic_language",
                         matches |-> ListOfSet(text.academic[i], seed),
                         count |-> 0] >>)
    IN  entry(1) \o entry(2) \o entry(3) \o entry(4)
        \o SelectIf(text.long_sentences > 0,
                    << [type |-> "long_sentences", matches |-> <<>>,
                        count |-> text.long_sentences] >>)

\* len(identify_complex_words(text))
identify_complex_words_count(text) == text.complex_words

\* simplify_text(text, level), as the text it yields
simplify_text(text, level) ==
    [ id |-> <<text.id, "simplify_text", level>>,
      len |-> text.len, stripped_len |-> text.stripped_len,
      fk_grade |-> text.simplified[level].fk_grade,
      reading_ease |-> text.reading_ease ]

(***************************************************************************)
(* modules/bias_detector.py                                                *)
(***************************************************************************)
\* BiasDetector.__init__
\* a detector configured with its medium threshold above the "complex" cut point
BiasDetector_medium_11 ==
    [ complexity_threshold_high |-> COMPLEXITY_THRESHOLD_HIGH,
      complexity_threshold_medium |-> COMPLEXITY_THRESHOLD_HIGH - 100 ]

BiasDetector ==
    [ complexity_threshold_high |-> COMPLEXITY_THRESHOLD_HIGH,
      complexity_threshold_medium |-> COMPLEXITY_THRESHOLD_MEDIUM ]

BiasIndicator(bias_type, severity, confidence, template, value, terms, segment) ==
    [ bias_type |-> bias_type, severity |-> severity, confidence |-> confidence,
      description |-> [template |-> template, value |-> value, terms |-> terms],
      affected_content_segment |-> segment ]

\* f"{x:.1f}" of a grade kept in hundredths: tenths
Tenths(x) == (x + 5) \div 10

\* f"{a/b:.0%}"
Percent(a, b) == (200 * a + b) \div (2 * b)

RECURSIVE JargonIndicators(_)
JargonIndicators(patterns) ==
    IF patterns = <<>> THEN <<>>
    ELSE SelectIf(Head(patterns).type = "academic_language",
                  << BiasIndicator("language_complexity", "low", 60,
                                   "Academic jargon detected", 0,
                                   Take(Head(patterns).matches, 5), <<>>) >>)
         \o JargonIndicators(Tail(patterns))

\* _detect_language_complexity_bias comparing the grade with > instead of >=
_detect_language_complexity_bias_above(self, content, metrics, seed) ==
    LET fk_grade == metrics.flesch_kincaid_grade
        grade ==
            IF fk_grade > self.complexity_threshold_high
            THEN << BiasIndicator("language_complexity", "high", 85,
                                  "Content readability at grade level",
                                  Tenths(fk_grade), <<>>,
                                  <<content.id, IF content.len > 200 THEN 200
                                                ELSE content.len>>) >>
            ELSE IF fk_grade > self.complexity_threshold_medium
            THEN << BiasIndicator("language_complexity", "medium", 70,
                                  "Content at grade level",
                                  Tenths(fk_grade), <<>>, <<>>) >>
            ELSE <<>>
        complex ==
            SelectIf(identify_complex_words_count(content) > 10,
                     << BiasIndicator("language_complexity", "medium", 65,
                                      "High density of complex words",
                                      identify_complex_words_count(content),
                                      <<>>, <<>>) >>)
    IN  grade \o JargonIndicators(identify_jargon_patterns(content, seed)) \o complex

_detect_language_complexity_bias(self, content, metrics, seed) ==
    LET fk_grade == metrics.flesch_kincaid_grade
        grade ==
            IF fk_grade >= self.complexity_threshold_high
            THEN << BiasIndicator("language_complexity", "high", 85,
                                  "Content readability at grade level",
                                  Tenths(fk_grade), <<>>,
                                  <<content.id, IF content.len > 200 THEN 200
                                                ELSE content.len>>) >>
            ELSE IF fk_grade >= self.complexity_threshold_medium
            THEN << BiasIndicator("language_complexity", "medium", 70,
                                  "Content at grade level",
                                  Tenths(fk_grade), <<>>, <<>>) >>
            ELSE <<>>
        complex ==
            SelectIf(identify_complex_words_count(content) > 10,
                     << BiasIndicator("language_complexity", "medium", 65,
                                      "High density of complex words",
                                      identify_complex_words_count(content),
                                      <<>>, <<>>) >>)
    IN  grade \o JargonIndicators(identify_jargon_patterns(content, seed)) \o complex

\* _detect_pace_mismatch with the second test not chained to the first
_detect_pace_mismatch_unchained(interaction_patterns) ==
    LET has_time(p) == "response_time_ms" \in DOMAIN p
        is_slow(p) == has_time(p) /\ p.response_time_ms > 15000
        n == Cardinality({i \in DOMAIN interaction_patterns :
                            has_time(interaction_patterns[i])})
        slow_responses == Cardinality({i \in DOMAIN interaction_patterns :
                                         is_slow(interaction_patterns[i])})
    IN  IF interaction_patterns = <<>> \/ n = 0 THEN <<>>
        ELSE SelectIf(10 * slow_responses > 5 * n,
                      << BiasIndicator("pace_mismatch", "high", 75,
                                       "Interaction patterns suggest content pace may be too fast",
                                       Percent(slow_responses, n), <<>>, <<>>) >>)
             \o SelectIf(10 * slow_responses > 3 * n,
                         << BiasIndicator("pace_mismatch", "medium", 60,
                                          "Some pace mismatch detected", 0, <<>>, <<>>) >>)

\* _detect_pace_mismatch with every pattern in the denominator
_detect_pace_mismatch_all(interaction_patterns) ==
    LET has_time(p) == "response_time_ms" \in DOMAIN p
        is_slow(p) == has_time(p) /\ p.response_time_ms > 15000
        n == Len(interaction_patterns)
        slow_responses == Cardinality({i \in DOMAIN interaction_patterns :
                                         is_slow(interaction_patterns[i])})
    IN  IF interaction_patterns = <<>> THEN <<>>
        ELSE IF 10 * slow_responses > 5 * n
        THEN << BiasIndicator("pace_mismatch", "high", 75,
                              "Interaction patterns suggest content pace may be too fast",
                              Percent(slow_responses, n), <<>>, <<>>) >>
        ELSE IF 10 * slow_responses > 3 * n
        THEN << BiasIndicator("pace_mismatch", "medium", 60,
                              "Some pace mismatch detected", 0, <<>>, <<>>) >>
        ELSE <<>>

_detect_pace_mismatch(interaction_patterns) ==
    LET has_time(p) == "response_time_ms" \in DOMAIN p
        is_slow(p) == has_time(p) /\ p.response_time_ms > 15000
        n == Cardinality({i \in DOMAIN interaction_patterns :
                            has_time(interaction_patterns[i])})
        slow_responses == Cardinality({i \in DOMAIN interaction_patterns :
                                         is_slow(interaction_patterns[i])})
    IN  IF interaction_patterns = <<>> \/ n = 0 THEN <<>>
        ELSE IF 10 * slow_responses > 5 * n
        THEN << BiasIndicator("pace_mismatch", "high", 75,
                              "Interaction patterns suggest content pace may be too fast",
                              Percent(slow_responses, n), <<>>, <<>>) >>
        ELSE IF 10 * slow_responses > 3 * n
        THEN << BiasIndicator("pace_mismatch", "medium", 60,
                              "Some pace mismatch detected", 0, <<>>, <<>>) >>
        ELSE <<>>

\* _detect_prior_exposure_gaps with the second test chained to the first
_detect_prior_exposure_gaps_chained(interaction_patterns) ==
    LET clarifications(p) == Get(p, "clarification_count", 0)
        repeated(p) == Get(p, "is_repeated_error", FALSE)
        clarification_count ==
            SumSeq([i \in DOMAIN interaction_patterns |->
                        clarifications(interaction_patterns[i])])
        repeated_errors == Cardinality({i \in DOMAIN interaction_patterns :
                                          repeated(interaction_patterns[i])})
        total_interactions == Len(interaction_patterns)
    IN  IF total_interactions = 0 THEN <<>>
        ELSE IF 10 * clarification_count > 15 * total_interactions
        THEN << BiasIndicator("prior_exposure_gap", "high", 70,
                              "High clarification rate", 0, <<>>, <<>>) >>
        ELSE SelectIf(10 * repeated_errors > 4 * total_interactions,
                      << BiasIndicator("prior_exposure_gap", "medium", 65,
                                       "Repeated errors", 0, <<>>, <<>>) >>)

_detect_prior_exposure_gaps(interaction_patterns) ==
    LET clarifications(p) == Get(p, "clarification_count", 0)
        repeated(p) == Get(p, "is_repeated_error", FALSE)
        clarification_count ==
            SumSeq([i \in DOMAIN interaction_patterns |->
                        clarifications(interaction_patterns[i])])
        repeated_errors == Cardinality({i \in DOMAIN interaction_patterns :
                                          repeated(interaction_patterns[i])})
        total_interactions == Len(interaction_patterns)
    IN  IF total_interactions = 0 THEN <<>>
        ELSE SelectIf(10 * clarification_count > 15 * total_interactions,
                      << BiasIndicator("prior_exposure_gap", "high", 70,
                                       "High clarification rate", 0, <<>>, <<>>) >>)
             \o SelectIf(10 * repeated_errors > 4 * total_interactions,
                         << BiasIndicator("prior_exposure_gap", "medium", 65,
                                          "Repeated errors", 0, <<>>, <<>>) >>)

_detect_representation_issues(content) ==
    LET has_examples == content.example_markers \/ content.example_colon
    IN  SelectIf(content.len > 500 /\ ~has_examples,
                 << BiasIndicator("representation_issue", "low", 55,
                                  "Content lacks concrete examples", 0, <<>>, <<>>) >>)
        \o SelectIf(content.len > 300 /\ ~content.has_numbers /\ ~content.has_lists,
                    << BiasIndicator("representation_issue", "low", 50,
                                     "Content is highly abstract", 0, <<>>, <<>>) >>)

\* the mapping with add_examples alone for a prior exposure gap
RecommendationsFor_examples_only(bias_type) ==
    CASE bias_type = "language_complexity" -> {"simplify_language"}
      [] bias_type = "pace_mismatch" -> {"adjust_pace"}
      [] bias_type = "prior_exposure_gap" -> {"add_examples"}
      [] bias_type = "representation_issue" -> {"add_examples", "change_representation"}
      [] OTHER -> {}

\* the mapping with no recommendation for a pace mismatch
RecommendationsFor_no_pace(bias_type) ==
    CASE bias_type = "language_complexity" -> {"simplify_language"}
      [] bias_type = "prior_exposure_gap" -> {"add_examples", "simplify_language"}
      [] bias_type = "representation_issue" -> {"add_examples", "change_representation"}
      [] OTHER -> {}

RecommendationsFor(bias_type) ==
    CASE bias_type = "language_complexity" -> {"simplify_language"}
      [] bias_type = "pace_mismatch" -> {"adjust_pace"}
      [] bias_type = "prior_exposure_gap" -> {"add_examples", "simplify_language"}
      [] bias_type = "representation_issue" -> {"add_examples", "change_representation"}
      [] OTHER -> {}

_build_recommendations(indicators, seed) ==
    ListOfSet(UNION {RecommendationsFor(indicators[i].bias_type) : i \in DOMAIN indicators},
              seed)

\* hashlib.sha256(s).hexdigest()[:16], taken as collision-free: the digest
\* stands for the string it was computed from
sha256_16(s) == [sha256_16 |-> s]

TypesOf(items, field) == [i \in DOMAIN items |-> items[i][field]]

\* _generate_audit_hash with the time of the analysis in the digest
BiasDetector_generate_audit_hash_timestamp(session_hash, content, indicators) ==
    sha256_16([ session |-> session_hash,
                content_hash |-> sha256_16(content.id),
                indicator_count |-> Len(indicators) + clock,
                indicator_types |-> sorted(TypesOf(indicators, "bias_type")) ])

\* _generate_audit_hash without the indicator types
BiasDetector_generate_audit_hash_count_only(session_hash, content, indicators) ==
    sha256_16([ session |-> session_hash,
                content_hash |-> sha256_16(content.id),
                indicator_count |-> Len(indicators),
                indicator_types |-> <<>> ])

\* BiasDetector._generate_audit_hash: str(sorted(data.items())) lists the four
\* items by key
BiasDetector_generate_audit_hash(session_hash, content, indicators) ==
    sha256_16([ session |-> session_hash,
                content_hash |-> sha256_16(content.id),
                indicator_count |-> Len(indicators),
                indicator_types |-> sorted(TypesOf(indicators, "bias_type")) ])

detect_bias(self, request, now, seed) ==
    LET readability_metrics == get_readability_metrics(request.content_text)
        complexity_indicators ==
            _detect_language_complexity_bias(self, request.content_text,
                                             readability_metrics, seed)
        pace_indicators ==
            IF request.interaction_patterns # <<>>
            THEN _detect_pace_mismatch(request.interaction_patterns) ELSE <<>>
        exposure_indicators ==
            IF request.interaction_patterns # <<>>
            THEN _detect_prior_exposure_gaps(request.interaction_patterns) ELSE <<>>
        representation_indicators ==
            _detect_representation_issues(request.content_text)
        indicators ==
            complexity_indicators \o pace_indicators \o exposure_indicators
            \o representation_indicators
        fk_grade == readability_metrics.flesch_kincaid_grade
    IN  [ session_hash |-> request.session_hash,
          bias_detected |-> Len(indicators) > 0,
          indicators |-> indicators,
          readability_score |-> fk_grade,
          complexity_level |-> get_complexity_level(fk_grade),
          recommended_actions |-> _build_recommendations(indicators, seed),
          analysis_timestamp |-> now,
          deterministic_hash |->
              BiasDetector_generate_audit_hash(request.session_hash,
                                               request.content_text, indicators) ]

\* the detector instance after a call: no method assigns to self
detector_after_call(self, request) == self

\* POST /detect-bias (main.py)
post_detect_bias(request, window) ==
    /\ log' = Logged(window,
                     Entry("detect-bias", request,
                           detect_bias(bias_detector, request, clock, hashSeed)))
    /\ bias_detector' = detector_after_call(bias_detector, request)
    /\ UNCHANGED <<clock, hashSeed, interaction_analyzer, adaptive_engine>>

(***************************************************************************)
(* modules/adaptive_engine.py.  An adapted text is written as the original *)
(* text followed by the edits made to it.                                  *)
(***************************************************************************)
\* AdaptiveEngine.__init__
AdaptiveEngine == [simplification_levels |-> SIMPLIFICATION_LEVELS]

AdaptedContent(adaptation_type, content, complexity_level, changes_made) ==
    [ adaptation_type |-> adaptation_type, content |-> content,
      complexity_level |-> complexity_level, changes_made |-> changes_made ]

Change(template, values) == [template |-> template, values |-> values]

\* _simplify_language taking level "simple" from three clarifications on
_simplify_language_from_3(content, signals) ==
    LET level == IF Get(signals, "clarification_count", 0) >= 3
                 THEN "simple" ELSE "moderate"
        simplified == simplify_text(content, level)
    IN  AdaptedContent("simplify_language", simplified.id, level,
                       << Change("Applied vocabulary simplification", <<>>) >>)

_simplify_language(content, signals) ==
    LET clarification_count == Get(signals, "clarification_count", 0)
        level == IF clarification_count > 3 THEN "simple" ELSE "moderate"
        simplified == simplify_text(content, level)
        orig_grade == get_readability_metrics(content).flesch_kincaid_grade
        new_grade == get_readability_metrics(simplified).flesch_kincaid_grade
        changes ==
            SelectIf(new_grade < orig_grade,
                     << Change("Reduced reading level",
                               <<Tenths(orig_grade), Tenths(new_grade)>>) >>)
            \o SelectIf(content.simplified[level].replaced_count > 0,
                        << Change("Simplified complex terms",
                                  <<content.simplified[level].replaced_count>>) >>)
            \o SelectIf(content.simplified[level].more_sentences,
                        << Change("Broke long sentences into shorter ones", <<>>) >>)
    IN  AdaptedContent("simplify_language", simplified.id, level,
                       IF changes = <<>>
                       THEN << Change("Applied vocabulary simplification", <<>>) >>
                       ELSE changes)

\* list(set(words + quoted))[:5]
_extract_key_concepts(content, seed) == Take(ListOfSet(content.concepts, seed), 5)

\* the header, then one line per concept of concepts[:3]
_generate_example_section(concepts) ==
    IF concepts = <<>> THEN <<>>
    ELSE <<"**Examples to help understand:**">> \o Take(concepts, 3)

_add_examples(content, signals, seed) ==
    LET has_examples == content.example_markers
        key_concepts == _extract_key_concepts(content, seed)
        section == ~has_examples /\ key_concepts # <<>>
    IN  AdaptedContent(
            "add_examples",
            <<content.id>>
            \o SelectIf(section, _generate_example_section(key_concepts))
            \o SelectIf(content.inline_terms, <<"(in simpler terms)">>),
            "moderate",
            IF ~section /\ ~content.inline_terms
            THEN << Change("Content already contains sufficient examples", <<>>) >>
            ELSE SelectIf(section, << Change("Added example section for key concepts",
                                             <<Len(key_concepts)>>) >>)
                 \o SelectIf(content.inline_terms,
                             << Change("Added inline examples for complex terms",
                                       <<>>) >>))

_change_representation(content, signals) ==
    LET \* _convert_to_bullets changes a text of three sentences or more
        bulleted == content.len > 200 /\ content.newlines < 3 /\ content.sentences >= 3
        \* the marker test reads the original content
        structure == ~content.list_chars
        \* _add_structure(modified): the bulleted text is one paragraph
        paragraphs == IF bulleted THEN 1 ELSE content.paragraphs
        split == structure /\ paragraphs < 2 /\ content.sentences >= 4
        headers == structure /\ paragraphs >= 2
        summary == content.len > 500
        changes ==
            SelectIf(bulleted, << Change("Converted dense text to bullet points", <<>>) >>)
            \o SelectIf(split \/ headers,
                        << Change("Added structural organization", <<>>) >>)
            \o SelectIf(summary, << Change("Added summary introduction", <<>>) >>)
    IN  AdaptedContent(
            "change_representation",
            <<content.id>>
            \o SelectIf(bulleted, <<"_convert_to_bullets">>)
            \o SelectIf(split, <<"split at the sentence midpoint">>)
            \o SelectIf(headers, <<"**Part N:**">>)
            \o SelectIf(summary, <<"**Quick Overview:**">>),
            "moderate",
            IF changes = <<>>
            THEN << Change("Reorganized content structure", <<>>) >>
            ELSE changes)

\* len(_split_into_chunks(content))
_split_into_chunks_count(content) ==
    IF content.paragraphs >= 3 THEN content.paragraphs
    ELSE IF content.sentences < 4 THEN 1
    ELSE (content.sentences + 2) \div 3

_adjust_pace(content, signals) ==
    LET chunks == _split_into_chunks_count(content)
        pauses == content.len > 800 /\ content.pause_point
    IN  AdaptedContent(
            "adjust_pace",
            <<content.id>>
            \o SelectIf(chunks > 1, <<"---">>)
            \o SelectIf(pauses, <<"**Pause and reflect:**">>),
            "simple",
            (IF chunks > 1
             THEN << Change("Divided content into digestible sections", <<chunks>>) >>
             ELSE << Change("Content is already appropriately paced", <<>>) >>)
            \o SelectIf(pauses, << Change("Added reflection checkpoints", <<>>) >>))

\* the list holding the adapted content, empty for None
_apply_adaptation(content, adaptation_type, signals, seed) ==
    CASE adaptation_type = "simplify_language" -> <<_simplify_language(content, signals)>>
      [] adaptation_type = "add_examples" -> <<_add_examples(content, signals, seed)>>
      [] adaptation_type = "change_representation" ->
            <<_change_representation(content, signals)>>
      [] adaptation_type = "adjust_pace" -> <<_adjust_pace(content, signals)>>
      [] OTHER -> <<>>

\* _select_primary_adaptation with a response time of 15000 ms already slow
_select_primary_adaptation_ge(adaptations, signals) ==
    LET signal_priority ==
            (IF Get(signals, "clarification_count", 0) > 2
             THEN {"simplify_language"} ELSE {})
            \cup (IF Get(signals, "is_repeated_error", FALSE)
                  THEN {"add_examples"} ELSE {})
            \cup (IF Get(signals, "response_time_ms", 0) >= 15000
                  THEN {"adjust_pace"} ELSE {})
        hits == {i \in DOMAIN adaptations :
                    adaptations[i].adaptation_type \in signal_priority}
    IN  IF adaptations = <<>> THEN <<>>
        ELSE IF hits # {}
        THEN <<adaptations[CHOOSE i \in hits : \A j \in hits : i <= j]>>
        ELSE <<adaptations[1]>>

\* the list holding the primary adaptation, empty for None
_select_primary_adaptation(adaptations, signals) ==
    LET signal_priority ==
            (IF Get(signals, "clarification_count", 0) > 2
             THEN {"simplify_language"} ELSE {})
            \cup (IF Get(signals, "is_repeated_error", FALSE)
                  THEN {"add_examples"} ELSE {})
            \cup (IF Get(signals, "response_time_ms", 0) > 15000
                  THEN {"adjust_pace"} ELSE {})
        hits == {i \in DOMAIN adaptations :
                    adaptations[i].adaptation_type \in signal_priority}
    IN  IF adaptations = <<>> THEN <<>>
        ELSE IF hits # {}
        THEN <<adaptations[CHOOSE i \in hits : \A j \in hits : i <= j]>>
        ELSE <<adaptations[1]>>

ReasonFor(adapt_type) ==
    CASE adapt_type = "simplify_language" -> <<"Language simplified">>
      [] adapt_type = "add_examples" -> <<"Examples added">>
      [] adapt_type = "change_representation" -> <<"Content restructured">>
      [] adapt_type = "adjust_pace" -> <<"Content chunked">>
      [] OTHER -> <<>>

RECURSIVE Reasons(_)
Reasons(requested_types) ==
    IF requested_types = <<>> THEN <<>>
    ELSE ReasonFor(Head(requested_types)) \o Reasons(Tail(requested_types))

\* " | ".join(reasons), as the list of the joined reasons
_build_adaptation_reasoning(requested_types, signals) ==
    IF Reasons(requested_types) = <<>> THEN <<"Standard adaptation applied">>
    ELSE Reasons(requested_types)

\* _generate_audit_hash listing the types in generation order
AdaptiveEngine_generate_audit_hash_unsorted(session_hash, original, adaptations) ==
    sha256_16([ session |-> session_hash,
                original_hash |-> sha256_16(original.id),
                adaptation_types |-> TypesOf(adaptations, "adaptation_type") ])

\* AdaptiveEngine._generate_audit_hash
AdaptiveEngine_generate_audit_hash(session_hash, original, adaptations) ==
    sha256_16([ session |-> session_hash,
                original_hash |-> sha256_16(original.id),
                adaptation_types |-> sorted(TypesOf(adaptations, "adaptation_type")) ])

RECURSIVE Adaptations_chained(_, _, _, _)
\* the loop handing each transform the output of the one before it
Adaptations_chained(content, requested, signals, seed) ==
    IF requested = <<>> THEN <<>>
    ELSE LET adapted == _apply_adaptation(content, Head(requested), signals, seed)
         IN  adapted
             \o Adaptations_chained([content EXCEPT !.id = adapted[1].content],
                                    Tail(requested), signals, seed)

RECURSIVE Adaptations(_, _, _, _)
\* the loop over request.requested_adaptations
Adaptations(content, requested, signals, seed) ==
    IF requested = <<>> THEN <<>>
    ELSE _apply_adaptation(content, Head(requested), signals, seed)
         \o Adaptations(content, Tail(requested), signals, seed)

generate_adaptation(self, request, seed) ==
    LET adaptations ==
            Adaptations(request.original_content, request.requested_adaptations,
                        request.interaction_signals, seed)
    IN  [ session_hash |-> request.session_hash,
          original_content |-> request.original_content.id,
          adaptations |-> adaptations,
          primary_recommendation |->
              _select_primary_adaptation(adaptations, request.interaction_signals),
          adaptation_reasoning |->
              _build_adaptation_reasoning(request.requested_adaptations,
                                          request.interaction_signals),
          deterministic_hash |->
              AdaptiveEngine_generate_audit_hash(request.session_hash,
                                                 request.original_content,
                                                 adaptations) ]

\* the engine instance after a call: no method assigns to self
engine_after_call(self, request) == self

\* POST /generate-adaptation (main.py)
post_generate_adaptation(request, window) ==
    /\ log' = Logged(window,
                     Entry("generate-adaptation", request,
                           generate_adaptation(adaptive_engine, request, hashSeed)))
    /\ adaptive_engine' = engine_after_call(adaptive_engine, request)
    /\ UNCHANGED <<clock, hashSeed, interaction_analyzer, bias_detector>>

(***************************************************************************)
(* The text transformations on the characters of a text.  A text is a      *)
(* string and a character is a string of length 1; positions count from 1. *)
(* The texts are ASCII: the letters, the space, tab and newline, and       *)
(* punctuation.                                                            *)
(***************************************************************************)
\* text[i - 1]
CharAt(text, i) == SubSeq(text, i, i)

\* text[i - 1:]
From(text, i) == SubSeq(text, i, Len(text))

Min(S) == CHOOSE i \in S : \A j \in S : i <= j

Max(S) == CHOOSE i \in S : \A j \in S : j <= i

\* str.lower() of a capital letter
LowerOf ==
    [ A |-> "a", B |-> "b", C |-> "c", D |-> "d", E |-> "e", F |-> "f", G |-> "g",
      H |-> "h", I |-> "i", J |-> "j", K |-> "k", L |-> "l", M |-> "m", N |-> "n",
      O |-> "o", P |-> "p", Q |-> "q", R |-> "r", S |-> "s", T |-> "t", U |-> "u",
      V |-> "v", W |-> "w", X |-> "x", Y |-> "y", Z |-> "z" ]

\* what re.IGNORECASE compares: the character folded to lower case
Folded(c) == IF c \in DOMAIN LowerOf THEN LowerOf[c] ELSE c

\* str.isspace() of a character
IsSpace(c) == c \in {" ", "\t", "\n", "\r"}

\* the character class [.!?]
IsSentenceEnd(c) == c \in {".", "!", "?"}

\* str.strip()
strip(text) ==
    LET kept == {i \in 1..Len(text) : ~IsSpace(CharAt(text, i))}
    IN  IF kept = {} THEN "" ELSE SubSeq(text, Min(kept), Max(kept))

RECURSIVE split(_)
\* str.split(): the runs of characters that are no whitespace
split(text) ==
    LET starts == {i \in 1..Len(text) : ~IsSpace(CharAt(text, i))}
        first == Min(starts)
        last == Min({j \in first..Len(text) :
                        j = Len(text) \/ IsSpace(CharAt(text, j + 1))})
    IN  IF starts = {} THEN <<>>
        ELSE <<SubSeq(text, first, last)>> \o split(From(text, last + 1))

RECURSIVE join(_, _)
\* separator.join(items)
join(separator, items) ==
    IF items = <<>> THEN ""
    ELSE IF Len(items) = 1 THEN items[1]
    ELSE items[1] \o separator \o join(separator, Tail(items))

\* simplify_text: the replacements dictionary, in insertion order
replacements ==
    << <<"utilize", "use">>, <<"implement", "do">>,
       <<"facilitate", "help">>, <<"commence", "start">>,
       <<"terminate", "end">>, <<"prior to", "before">>,
       <<"subsequent to", "after">>, <<"in order to", "to">>,
       <<"due to the fact that", "because">>, <<"at this point in time", "now">>,
       <<"in the event that", "if">>, <<"for the purpose of", "to">>,
       <<"in addition to", "also">>, <<"with regard to", "about">>,
       <<"in accordance with", "following">>, <<"nevertheless", "but">>,
       <<"furthermore", "also">>, <<"consequently", "so">>,
       <<"approximately", "about">>, <<"sufficient", "enough">>,
       <<"demonstrate", "show">>, <<"indicate", "show">>,
       <<"obtain", "get">>, <<"require", "need">>,
       <<"assist", "help">>, <<"attempt", "try">>,
       <<"determine", "find out">>, <<"establish", "set up">>,
       <<"evaluate", "check">>, <<"identify", "find">>,
       <<"maintain", "keep">>, <<"modify", "change">>,
       <<"perform", "do">>, <<"provide", "give">>,
       <<"regarding", "about">>, <<"remain", "stay">>,
       <<"request", "ask for">>, <<"select", "choose">>,
       <<"therefore", "so">>, <<"currently", "now">>,
       <<"additional", "more">>, <<"component", "part">>,
       <<"methodology", "method">>, <<"functionality", "feature">> >>

\* re.compile(re.escape(complex_word), re.IGNORECASE) matches at position i
MatchesAt(complex_word, text, i) ==
    /\ i + Len(complex_word) - 1 <= Len(text)
    /\ \A k \in 1..Len(complex_word) :
           Folded(CharAt(text, i + k - 1)) = CharAt(complex_word, k)

RECURSIVE pattern_sub(_, _, _)
\* pattern.sub(simple_word, text): every match, leftmost first, none
\* overlapping another, replaced by simple_word
pattern_sub(complex_word, simple_word, text) ==
    LET starts == {i \in 1..Len(text) : MatchesAt(complex_word, text, i)}
        first == Min(starts)
    IN  IF starts = {} THEN text
        ELSE SubSeq(text, 1, first - 1) \o simple_word
             \o pattern_sub(complex_word, simple_word,
                            From(text, first + Len(complex_word)))

RECURSIVE apply_replacements(_, _)
\* for complex_word, simple_word in replacements.items(): the text after
\* the entries of `table`
\* (the comparison of `replaced` only fixes the order of evaluation)
apply_replacements(table, simplified) ==
    LET replaced == pattern_sub(Head(table)[1], Head(table)[2], simplified)
    IN  IF table = <<>> THEN simplified
        ELSE IF replaced = simplified THEN apply_replacements(Tail(table), simplified)
        ELSE apply_replacements(Tail(table), replaced)

RECURSIVE re_split_ends(_)
\* re.split(r'([.!?]+)', text): the texts between the runs of sentence ends,
\* each followed by the run that ended it
re_split_ends(text) ==
    LET ends == {i \in 1..Len(text) : IsSentenceEnd(CharAt(text, i))}
        first == Min(ends)
        last == Min({j \in first..Len(text) :
                        j = Len(text) \/ ~IsSentenceEnd(CharAt(text, j + 1))})
    IN  IF ends = {} THEN <<text>>
        ELSE <<SubSeq(text, 1, first - 1), SubSeq(text, first, last)>>
             \o re_split_ends(From(text, last + 1))

RECURSIVE break_sentences(_, _)
\* the loop over enumerate(sentences): new_sentences after the pieces left
break_sentences(sentences, new_sentences) ==
    LET sentence == sentences[1]
        words == split(sentence)
        midpoint == Len(words) \div 2
        broken ==
            IF Len(words) > 20
            THEN new_sentences
                 \o << join(" ", SubSeq(words, 1, midpoint)) \o ".",
                       join(" ", SubSeq(words, midpoint + 1, Len(words))) >>
            ELSE Append(new_sentences, sentence)
    IN  IF sentences = <<>> THEN new_sentences
        ELSE IF Len(sentences) = 1 THEN broken
        ELSE break_sentences(SubSeq(sentences, 3, Len(sentences)),
                             [broken EXCEPT ![Len(broken)] = @ \o sentences[2]])

\* TextAnalyzer.simplify_text on the characters of the text
TextAnalyzer_simplify_text(text, level) ==
    LET simplified == apply_replacements(replacements, text)
    IN  strip(IF level = "simple"
              THEN join(" ", break_sentences(re_split_ends(simplified), <<>>))
              ELSE simplified)

\* the facts get_readability_metrics reads off a string
Facts(text) ==
    [ id |-> text, len |-> Len(text), stripped_len |-> Len(strip(text)),
      fk_grade |-> Textstat("flesch_kincaid_grade", [id |-> text]),
      reading_ease |-> Textstat("flesch_reading_ease", [id |-> text]) ]

\* POST /simplify-text (main.py): request is a dictionary
post_simplify_text(request, window) ==
    LET text == Get(request, "text", "")
        asked == Get(request, "level", "moderate")
        level == IF asked \notin {"simple", "moderate"} THEN "moderate" ELSE asked
        simplified == TextAnalyzer_simplify_text(text, level)
    IN  /\ log' = Logged(window,
                         Entry("simplify-text", request,
                               IF text = ""
                               THEN [status_code |-> 400,
                                     detail |-> "Text content is required"]
                               ELSE [ original |-> text,
                                      simplified |-> simplified,
                                      level |-> level,
                                      original_grade |->
                                          get_readability_metrics(Facts(text))
                                              .flesch_kincaid_grade,
                                      simplified_grade |->
                                          get_readability_metrics(Facts(simplified))
                                              .flesch_kincaid_grade ]))
        /\ UNCHANGED <<clock, hashSeed, interaction_analyzer, bias_detector,
                       adaptive_engine>>

(***************************************************************************)
(* modules/adaptive_engine.py on the characters of the content:            *)
(* _change_representation and _adjust_pace with the methods they call.     *)
(* The source file spells the bullet as the three characters U+00E2 U+20AC  *)
(* U+00A2 and the light bulb of the reflection prompt as the four           *)
(* characters U+00F0 U+0178 U+2019 U+00A1; they are written here with as    *)
(* many ASCII characters, which no content of the model holds otherwise.    *)
(***************************************************************************)
BULLET == "{=}"

LIGHT_BULB == "{##}"

\* marker in content
Contains(content, marker) ==
    \E i \in 1..(Len(content) - Len(marker) + 1) :
        SubSeq(content, i, i + Len(marker) - 1) = marker

\* content.count('\n')
CountNewlines(content) == Cardinality({i \in 1..Len(content) : CharAt(content, i) = "\n"})

RECURSIVE split_paragraphs(_)
\* content.split('\n\n')
split_paragraphs(content) ==
    LET breaks == {i \in 1..(Len(content) - 1) : SubSeq(content, i, i + 1) = "\n\n"}
        first == Min(breaks)
    IN  IF breaks = {} THEN <<content>>
        ELSE <<SubSeq(content, 1, first - 1)>> \o split_paragraphs(From(content, first + 2))

RECURSIVE re_split_sentences(_)
\* re.split(r'(?<=[.!?])\s+', content): cut at each run of whitespace that
\* follows a sentence end
re_split_sentences(content) ==
    LET breaks == {i \in 2..Len(content) :
                      /\ IsSpace(CharAt(content, i))
                      /\ IsSentenceEnd(CharAt(content, i - 1))}
        first == Min(breaks)
        last == Min({j \in first..Len(content) :
                        j = Len(content) \/ ~IsSpace(CharAt(content, j + 1))})
    IN  IF breaks = {} THEN <<content>>
        ELSE <<SubSeq(content, 1, first - 1)>>
             \o re_split_sentences(From(content, last + 1))

RECURSIVE Bullets(_)
\* the loop of _convert_to_bullets: a bullet for each sentence that is not
\* blank
Bullets(sentences) ==
    IF sentences = <<>> THEN <<>>
    ELSE SelectIf(strip(Head(sentences)) # "",
                  <<BULLET \o " " \o strip(Head(sentences))>>)
         \o Bullets(Tail(sentences))

_convert_to_bullets(content) ==
    LET sentences == re_split_sentences(content)
    IN  IF Len(sentences) < 3 THEN content ELSE join("\n", Bullets(sentences))

RECURSIVE Parts(_, _)
\* the loop of _add_structure over enumerate(paragraphs, 1), from number i
Parts(paragraphs, i) ==
    IF paragraphs = <<>> THEN <<>>
    ELSE SelectIf(strip(Head(paragraphs)) # "",
                  <<"**Part " \o ToString(i) \o ":**\n" \o Head(paragraphs)>>)
         \o Parts(Tail(paragraphs), i + 1)

_add_structure(content) ==
    LET paragraphs == split_paragraphs(content)
        sentences == re_split_sentences(content)
        mid == Len(sentences) \div 2
    IN  IF Len(paragraphs) < 2
        THEN IF Len(sentences) >= 4
             THEN join("\n\n", << join(" ", SubSeq(sentences, 1, mid)),
                                  join(" ", SubSeq(sentences, mid + 1, Len(sentences))) >>)
             ELSE content
        ELSE join("\n\n", Parts(paragraphs, 1))

_add_summary(content) ==
    LET first_sentence == re_split_sentences(content)[1]
    IN  "**Quick Overview:** "
        \o (IF Len(first_sentence) > 100
            THEN SubSeq(first_sentence, 1, 100) \o "..." ELSE first_sentence)
        \o "\n\n---\n\n" \o content

\* _change_representation on the characters of the content
AdaptiveEngine_change_representation(content) ==
    LET bulleted == IF Len(content) > 200 /\ CountNewlines(content) < 3
                    THEN _convert_to_bullets(content) ELSE content
        structured ==
            IF ~\E marker \in {BULLET, "-", "*", "1.", "2."} : Contains(content, marker)
            THEN _add_structure(bulleted) ELSE bulleted
        with_summary ==
            IF Len(content) > 500 THEN _add_summary(structured) ELSE structured
        changes ==
            SelectIf(bulleted # content,
                     << Change("Converted dense text to bullet points", <<>>) >>)
            \o SelectIf(structured # bulleted,
                        << Change("Added structural organization", <<>>) >>)
            \o SelectIf(with_summary # structured,
                        << Change("Added summary introduction", <<>>) >>)
    IN  AdaptedContent("change_representation", with_summary, "moderate",
                       IF changes = <<>>
                       THEN << Change("Reorganized content structure", <<>>) >>
                       ELSE changes)

RECURSIVE Chunks(_)
\* the loop of _split_into_chunks: the sentences in groups of chunk_size = 3
Chunks(sentences) ==
    IF sentences = <<>> THEN <<>>
    ELSE SelectIf(strip(join(" ", Take(sentences, 3))) # "",
                  <<join(" ", Take(sentences, 3))>>)
         \o Chunks(SubSeq(sentences, 4, Len(sentences)))

_split_into_chunks(content) ==
    IF Len(split_paragraphs(content)) >= 3 THEN split_paragraphs(content)
    ELSE IF Len(re_split_sentences(content)) < 4 THEN <<content>>
    ELSE Chunks(re_split_sentences(content))

_add_pace_markers(chunks) ==
    IF chunks = <<>> THEN "" ELSE join("\n\n---\n\n", chunks)

\* the prompt _add_reflection_prompts inserts
REFLECTION ==
    "\n\n" \o LIGHT_BULB \o " **Pause and reflect:** What's the main point so far?\n\n"

\* positions count from 1 here: content[i] of the source is CharAt(content, i + 1)
_add_reflection_prompts(content) ==
    LET midpoint == Len(content) \div 2
        search_end == IF Len(content) < midpoint + 50 THEN Len(content)
                      ELSE midpoint + 50
        found == {i \in midpoint..(search_end - 1) :
                     IsSentenceEnd(CharAt(content, i + 1)) /\ i + 1 < Len(content)}
        insert_point == Min(found) + 1
    IN  IF found = {} THEN content
        ELSE SubSeq(content, 1, insert_point) \o REFLECTION
             \o From(content, insert_point + 1)

\* _adjust_pace on the characters of the content
AdaptiveEngine_adjust_pace(content) ==
    LET chunks == _split_into_chunks(content)
        paced_content == IF Len(chunks) > 1 THEN _add_pace_markers(chunks) ELSE content
        with_pauses == IF Len(content) > 800 THEN _add_reflection_prompts(paced_content)
                       ELSE paced_content
    IN  AdaptedContent(
            "adjust_pace", with_pauses, "simple",
            (IF Len(chunks) > 1
             THEN << Change("Divided content into digestible sections", <<Len(chunks)>>) >>
             ELSE << Change("Content is already appropriately paced", <<>>) >>)
            \o SelectIf(with_pauses # paced_content,
                        << Change("Added reflection checkpoints", <<>>) >>))

\* a call of adaptive_engine._change_representation
call_change_representation(content, window) ==
    /\ log' = Logged(window, Entry("change-representation", content,
                                   AdaptiveEngine_change_representation(content)))
    /\ UNCHANGED <<clock, hashSeed, interaction_analyzer, bias_detector,
                   adaptive_engine>>

\* a call of adaptive_engine._adjust_pace
call_adjust_pace(content, window) ==
    /\ log' = Logged(window, Entry("adjust-pace", content,
                                   AdaptiveEngine_adjust_pace(content)))
    /\ UNCHANGED <<clock, hashSeed, interaction_analyzer, bias_detector,
                   adaptive_engine>>

(***************************************************************************)
(* Requests.                                                               *)
(***************************************************************************)
\* tests/conftest.py simple_text: "The cat sat on the mat. It was a happy cat."
simple_text ==
    [ id |-> "simple_text", len |-> 43, stripped_len |-> 43,
      fk_grade |-> -57, reading_ease |-> 10896,
      academic |-> <<{}, {}, {}, {}>>, long_sentences |-> 0, complex_words |-> 0,
      example_markers |-> FALSE, example_colon |-> FALSE,
      has_numbers |-> FALSE, has_lists |-> FALSE,
      concepts |-> {"The", "It"},
      newlines |-> 0, paragraphs |-> 1, sentences |-> 2, list_chars |-> FALSE,
      simplified |-> [ moderate |-> [fk_grade |-> -57, replaced_count |-> 0,
                                     more_sentences |-> FALSE],
                       simple |-> [fk_grade |-> -57, replaced_count |-> 0,
                                   more_sentences |-> FALSE] ],
      inline_terms |-> FALSE, pause_point |-> FALSE ]

\* another text that the analyzer cannot tell from simple_text
other_simple_text == [simple_text EXCEPT !.id = "other_simple_text"]

\* tests/conftest.py complex_text: one sentence of 24 words, 206 characters
complex_text ==
    [ id |-> "complex_text", len |-> 206, stripped_len |-> 206,
      fk_grade |-> 2800, reading_ease |-> -6000,
      academic |-> <<{}, {}, {}, {}>>, long_sentences |-> 0, complex_words |-> 16,
      example_markers |-> FALSE, example_colon |-> FALSE,
      has_numbers |-> FALSE, has_lists |-> FALSE,
      concepts |-> {"The"},
      newlines |-> 0, paragraphs |-> 1, sentences |-> 1, list_chars |-> FALSE,
      simplified |-> [ moderate |-> [fk_grade |-> 2500, replaced_count |-> 3,
                                     more_sentences |-> FALSE],
                       simple |-> [fk_grade |-> 1100, replaced_count |-> 3,
                                   more_sentences |-> TRUE] ],
      inline_terms |-> TRUE, pause_point |-> FALSE ]

\* a long single-paragraph passage using "therefore" and "hence"
lecture_text ==
    [ id |-> "lecture_text", len |-> 900, stripped_len |-> 900,
      fk_grade |-> 950, reading_ease |-> 5500,
      academic |-> <<{"therefore", "hence"}, {}, {}, {}>>,
      long_sentences |-> 1, complex_words |-> 12,
      example_markers |-> FALSE, example_colon |-> FALSE,
      has_numbers |-> FALSE, has_lists |-> FALSE,
      concepts |-> {"The", "It"},
      newlines |-> 0, paragraphs |-> 1, sentences |-> 9, list_chars |-> FALSE,
      simplified |-> [ moderate |-> [fk_grade |-> 900, replaced_count |-> 1,
                                     more_sentences |-> FALSE],
                       simple |-> [fk_grade |-> 800, replaced_count |-> 1,
                                   more_sentences |-> TRUE] ],
      inline_terms |-> TRUE, pause_point |-> TRUE ]

Texts == {simple_text, other_simple_text, complex_text, lecture_text}

\* texts that get_readability_metrics does not hand to textstat, and the
\* shortest kind that it does: "", twelve spaces, "Cognition", "Cognition"
\* between spaces, "Cognitions"
empty_text ==
    [ simple_text EXCEPT !.id = "", !.len = 0, !.stripped_len = 0,
                         !.fk_grade = 0, !.reading_ease = 0,
                         !.concepts = {}, !.sentences = 1 ]

blank_text ==
    [ empty_text EXCEPT !.id = "            ", !.len = 12 ]

short_text ==
    [ simple_text EXCEPT !.id = "Cognition", !.len = 9, !.stripped_len = 9,
                         !.fk_grade = 2020, !.reading_ease = -4798,
                         !.complex_words = 1, !.concepts = {"Cognition"},
                         !.sentences = 1 ]

padded_text == [ short_text EXCEPT !.id = "   Cognition   ", !.len = 15 ]

ten_character_text ==
    [ short_text EXCEPT !.id = "Cognitions", !.len = 10, !.stripped_len = 10 ]

DegenerateTexts == {empty_text, blank_text, short_text, padded_text, ten_character_text}

\* interaction_patterns: dictionaries, any key may be missing
PatternLists ==
    { <<>>,
      << [response_time_ms |-> 20000], [response_time_ms |-> 18000],
         [response_time_ms |-> 5000] >>,
      << [clarification_count |-> 2], [clarification_count |-> 3],
         [clarification_count |-> 1] >> }

BiasRequests ==
    [ session_hash : {"s1"}, content_text : Texts,
      interaction_patterns : PatternLists ]

SignalDicts == { <<>>, [clarification_count |-> 4] }

RequestedLists ==
    { <<"add_examples">>,
      <<"simplify_language", "change_representation">>,
      <<"change_representation", "simplify_language">>,
      <<"adjust_pace">> }

AdaptationRequests ==
    [ session_hash : {"s1"},
      original_content : {simple_text, other_simple_text, lecture_text},
      requested_adaptations : RequestedLists,
      interaction_signals : SignalDicts ]

ServiceInteractions ==
    { i \in Interactions :
        \/ /\ i.response_time_ms = 25000 /\ i.action_type = "read"
           /\ i.is_repeated_error /\ i.clarification_count = 0
           /\ i.time_on_content_seconds = 61
        \/ /\ i.response_time_ms = 999 /\ i.action_type = "read"
           /\ ~i.is_repeated_error /\ i.clarification_count = 0
           /\ i.time_on_content_seconds = 5
        \/ /\ i.response_time_ms = 1001 /\ i.action_type = "clarification"
           /\ ~i.is_repeated_error /\ i.clarification_count = 1
           /\ i.time_on_content_seconds = 60 }

(***************************************************************************)
(* The service: main.py creates the three instances when the process       *)
(* starts and serves each request to completion.                           *)
(***************************************************************************)
Init ==
    /\ clock = 0
    /\ hashSeed \in Seeds
    /\ interaction_analyzer = InteractionAnalyzer
    /\ bias_detector = BiasDetector
    /\ adaptive_engine = AdaptiveEngine
    /\ log = <<>>

\* time passes
Tick ==
    /\ clock < MaxClock
    /\ clock' = clock + 1
    /\ UNCHANGED <<hashSeed, interaction_analyzer, bias_detector, adaptive_engine, log>>

\* the process is started again: main.py:52-54
Restart ==
    /\ hashSeed' \in Seeds
    /\ interaction_analyzer' = InteractionAnalyzer
    /\ bias_detector' = BiasDetector
    /\ adaptive_engine' = AdaptiveEngine
    /\ UNCHANGED <<clock, log>>

AnalyzeInteraction == \E i \in ServiceInteractions : post_analyze_interaction(i, 2)

DetectBias == \E r \in BiasRequests : post_detect_bias(r, 2)

GenerateAdaptation == \E r \in AdaptationRequests : post_generate_adaptation(r, 2)

Next == AnalyzeInteraction \/ DetectBias \/ GenerateAdaptation \/ Tick \/ Restart

Spec == Init /\ [][Next]_vars

(***************************************************************************)
(* The analyzer on its own, over every interaction record of the bounded   *)
(* value sets; the log holds the last response.                            *)
(***************************************************************************)
AnalyzeAny == \E i \in Interactions : post_analyze_interaction(i, 1)

SpecAnalyzer == Init /\ [][AnalyzeAny]_vars

(***************************************************************************)
(* The detector on its own, over texts of every grade around the cut       *)
(* points; the log holds the last two responses.                           *)
(***************************************************************************)
Grades == {-57, 0, 599, 600, 601, 799, 800, 999, 1000, 1001, 1200, 2800}

GradedTexts ==
    { [lecture_text EXCEPT !.id = <<"lecture_text", g>>, !.fk_grade = g] : g \in Grades }

GradedBiasRequests ==
    [ session_hash : {"s1"}, content_text : GradedTexts, interaction_patterns : {<<>>} ]

DetectGraded == \E r \in GradedBiasRequests : post_detect_bias(r, 2)

SpecDetect == Init /\ [][DetectGraded]_vars

(***************************************************************************)
(* The detector on its own, over texts and interaction patterns on both    *)
(* sides of every cut point of the four sub-detectors; the log holds the   *)
(* last response.                                                          *)
(***************************************************************************)
DetectorGrades == {500, 799, 800, 1199, 1200}

DetectorAcademic == { <<{}, {}, {}, {}>>, <<{"therefore", "hence"}, {}, {"paradigm"}, {}>> }

DetectorComplexWords == {10, 11}

\* len(content), and whether it has an "example:" and a number
DetectorShapes ==
    { [len |-> 300, example_colon |-> FALSE, has_numbers |-> FALSE],
      [len |-> 500, example_colon |-> FALSE, has_numbers |-> FALSE],
      [len |-> 501, example_colon |-> FALSE, has_numbers |-> FALSE],
      [len |-> 501, example_colon |-> TRUE, has_numbers |-> TRUE] }

DetectorTexts ==
    { [ lecture_text EXCEPT !.id = <<"lecture_text", g, a, c, shape>>,
                            !.fk_grade = g, !.academic = a, !.complex_words = c,
                            !.len = shape.len, !.stripped_len = shape.len,
                            !.example_colon = shape.example_colon,
                            !.has_numbers = shape.has_numbers ] :
        g \in DetectorGrades, a \in DetectorAcademic,
        c \in DetectorComplexWords, shape \in DetectorShapes }

slow_pattern == [response_time_ms |-> 20000]
quick_pattern == [response_time_ms |-> 1000]

\* two slow responses with two clarifications each, both repeated errors
struggling_patterns ==
    << [response_time_ms |-> 20000, clarification_count |-> 2,
        is_repeated_error |-> TRUE],
       [response_time_ms |-> 20000, clarification_count |-> 2,
        is_repeated_error |-> TRUE] >>

DetectorPatternLists ==
    { <<>>,
      << [response_time_ms |-> 20000], [response_time_ms |-> 18000],
         [response_time_ms |-> 5000] >>,
      << [clarification_count |-> 2], [clarification_count |-> 3],
         [clarification_count |-> 1] >>,
      << [response_time_ms |-> 15001], [response_time_ms |-> 15000] >>,
      << slow_pattern, quick_pattern, quick_pattern >>,
      << slow_pattern, slow_pattern, slow_pattern, quick_pattern, quick_pattern,
         quick_pattern, quick_pattern, quick_pattern, quick_pattern, quick_pattern >>,
      << slow_pattern, [clarification_count |-> 1], [clarification_count |-> 1] >>,
      << [clarification_count |-> 1], [clarification_count |-> 2] >>,
      << [is_repeated_error |-> TRUE], [is_repeated_error |-> TRUE],
         [is_repeated_error |-> FALSE], [is_repeated_error |-> FALSE],
         [is_repeated_error |-> FALSE] >>,
      << [is_repeated_error |-> TRUE], [is_repeated_error |-> FALSE] >>,
      struggling_patterns,
      << [content_id |-> "c1"] >> }

\* every text with no patterns and with the patterns of a struggling
\* learner; every pattern list with a text that raises no indicator and
\* with one that raises indicators of both kinds
DetectorRequests ==
    [ session_hash : {"s1"}, content_text : DetectorTexts,
      interaction_patterns : {<<>>, struggling_patterns} ]
    \cup [ session_hash : {"s1"}, content_text : {simple_text, lecture_text},
           interaction_patterns : DetectorPatternLists ]

DetectAny == \E r \in DetectorRequests : post_detect_bias(r, 1)

SpecDetectAny == Init /\ [][DetectAny]_vars

(***************************************************************************)
(* The sequence analysis on its own: one call after another on the shared  *)
(* analyzer; the log holds the last result.                                *)
(***************************************************************************)
\* an InteractionData of a sequence
SequenceRecord(response_time_ms, clarification_count, is_repeated_error) ==
    [ session_hash |-> "s1", response_time_ms |-> response_time_ms,
      action_type |-> "read", is_repeated_error |-> is_repeated_error,
      clarification_count |-> clarification_count,
      time_on_content_seconds |-> 5 ]

\* the response times of the records of a sequence, in milliseconds
ResponseTimeLists ==
    { <<>>, <<1000>>, <<1100, 900>>,
      <<1000, 900, 900>>, <<1000, 900, 899>>,
      <<1000, 1100, 1100>>, <<1000, 1100, 1101>>,
      <<1000, 1000, 900, 900>>, <<1000, 1000, 900, 900, 900>>,
      <<2000, 2000, 1000, 1500, 1500, 1500>>,
      <<4000, 4000, 4500, 3750, 3750, 3750>>,
      <<10000, 10000, 10000>>, <<10000, 10000, 10001>>,
      <<25000, 20000, 5000>>,
      <<1000, 1000, 1000, 1000, 1000, 1000, 1000, 1000, 1000, 1000>> }

\* how many records of a sequence, from the first on, are repeated errors
ErrorCounts == {0, 1, 3, 4}

\* the clarification_count of every record, and what the first record has
\* on top of it
ClarificationPatterns == { <<0, 0>>, <<2, 0>>, <<2, 1>> }

InteractionSequence(times, errors, clarifications) ==
    [ i \in DOMAIN times |->
        SequenceRecord(times[i],
                       clarifications[1] + (IF i = 1 THEN clarifications[2] ELSE 0),
                       i <= errors) ]

InteractionSequences ==
    { InteractionSequence(times, errors, clarifications) :
        times \in ResponseTimeLists, errors \in ErrorCounts,
        clarifications \in ClarificationPatterns }

AnalyzeSequence ==
    \E interactions \in InteractionSequences :
        call_analyze_interaction_sequence(interactions, 1)

SpecSequence == Init /\ [][AnalyzeSequence]_vars

(***************************************************************************)
(* The detector and the sequence analysis on the shortest inputs; the log  *)
(* holds the last two results.                                             *)
(***************************************************************************)
ShortBiasRequests ==
    [ session_hash : {"s1"}, content_text : DegenerateTexts \cup {lecture_text},
      interaction_patterns : PatternLists ]

ShortSequences == {interactions \in InteractionSequences : Len(interactions) <= 1}

DetectShort == \E r \in ShortBiasRequests : post_detect_bias(r, 2)

AnalyzeShortSequence ==
    \E interactions \in ShortSequences :
        call_analyze_interaction_sequence(interactions, 2)

NextDegenerate == DetectShort \/ AnalyzeShortSequence

SpecDegenerate == Init /\ [][NextDegenerate]_vars

(***************************************************************************)
(* The engine on its own, over interaction_signals on both sides of every  *)
(* cut point and over single, repeated and permuted adaptation types; the  *)
(* log holds the last response.                                            *)
(***************************************************************************)
\* interaction_signals: a dictionary, any key may be missing
AdaptSignals ==
    { c @@ e @@ t :
        c \in { <<>>, [clarification_count |-> 2], [clarification_count |-> 3],
                [clarification_count |-> 4] },
        e \in { <<>>, [is_repeated_error |-> TRUE] },
        t \in { <<>>, [response_time_ms |-> 15000], [response_time_ms |-> 15001] } }

\* requested_adaptations: at least one type (schemas.py min_length=1)
AdaptLists ==
    { <<"simplify_language">>, <<"add_examples">>, <<"change_representation">>,
      <<"adjust_pace">>,
      <<"change_representation", "simplify_language">>,
      <<"simplify_language", "change_representation">>,
      <<"change_representation", "change_representation">>,
      <<"change_representation", "adjust_pace", "adjust_pace">>,
      <<"change_representation", "add_examples", "adjust_pace", "simplify_language">>,
      <<"simplify_language", "adjust_pace", "add_examples", "change_representation">> }

AdaptAnyRequests ==
    [ session_hash : {"s1"}, original_content : {lecture_text},
      requested_adaptations : AdaptLists, interaction_signals : AdaptSignals ]

AdaptAny == \E r \in AdaptAnyRequests : post_generate_adaptation(r, 1)

SpecAdaptAny == Init /\ [][AdaptAny]_vars

(***************************************************************************)
(* Pairs of responses: the engine and the detector over requests that      *)
(* differ in one part only; the log holds the last two responses.          *)
(***************************************************************************)
PairLists ==
    { <<"simplify_language">>, <<"add_examples">>, <<"change_representation">>,
      <<"change_representation", "simplify_language">>,
      <<"simplify_language", "change_representation">>,
      <<"add_examples", "add_examples">>,
      <<"simplify_language", "add_examples", "change_representation">> }

PairSignals ==
    { <<>>, [clarification_count |-> 4],
      [is_repeated_error |-> TRUE, response_time_ms |-> 15001] }

PairAdaptationRequests ==
    [ session_hash : {"s1"}, original_content : {simple_text, lecture_text},
      requested_adaptations : PairLists, interaction_signals : PairSignals ]

PairBiasRequests ==
    [ session_hash : {"s1"}, content_text : {lecture_text},
      interaction_patterns : DetectorPatternLists ]

AdaptPair == \E r \in PairAdaptationRequests : post_generate_adaptation(r, 2)

DetectPair == \E r \in PairBiasRequests : post_detect_bias(r, 2)

NextPair == AdaptPair \/ DetectPair

SpecPairs == Init /\ [][NextPair]_vars

(***************************************************************************)
(* The text transformations on their own: one request, and for             *)
(* /simplify-text a second one that hands the simplified text back at the  *)
(* same level.                                                             *)
(***************************************************************************)
\* words and phrases of the replacements table, alone and inside longer words
SimplifyFragments ==
    { "prior", "in order to", "implementation", "perform", "Utilize", "request",
      "the purpose of", "performance", "methodology" }

\* n times the word "a", space-separated
Words(n) == join(" ", [i \in 1..n |-> "a"])

SimplifyTexts ==
    SimplifyFragments
    \cup { a \o " " \o b : a, b \in SimplifyFragments }
    \cup { "A. B.", "We perform. They assist!", "Hi", " . ",
           Words(20) \o ".", Words(21) \o "?!", Words(41) \o "." }

SimplifyRequests ==
    [ text : SimplifyTexts, level : {"moderate", "simple"} ]
    \cup { [text |-> "We perform. They assist!"],
           [text |-> "We perform. They assist!", level |-> "basic"],
           [level |-> "simple"] }

SimplifyText == log = <<>> /\ \E r \in SimplifyRequests : post_simplify_text(r, 2)

\* the client sends the simplified text of the response back
SimplifyAgain ==
    /\ Len(log) = 1
    /\ log[1].op = "simplify-text"
    /\ "simplified" \in DOMAIN log[1].res
    /\ post_simplify_text([text |-> log[1].res.simplified,
                           level |-> log[1].res.level], 2)

RECURSIVE Fill(_, _)
\* n times the character c
Fill(c, n) ==
    IF n = 0 THEN ""
    ELSE LET half == Fill(c, n \div 2)
         IN  half \o half \o (IF n % 2 = 1 THEN c ELSE "")

\* a sentence of n characters
Sentence(c, n, end) == Fill(c, n - 1) \o end

\* k sentences of n characters each
Sentences(k, n, sep) == join(sep, [i \in 1..k |-> Sentence("x", n, ".")])

MaxSentences == 6

\* contents for _change_representation: dense paragraphs of one to
\* MaxSentences sentences on both sides of the lengths 200 and 500, contents
\* that hold a list marker already, and contents of several paragraphs
ChangeTexts ==
    { Sentences(k, n, " ") : k \in 1..MaxSentences, n \in {40, 70, 130} }
    \cup { "- " \o Sentences(k, 70, " ") : k \in 1..MaxSentences }
    \cup { Sentences(3, 70, " ") \o "\n\n" \o Sentences(k, 70, " ") : k \in 1..MaxSentences }
    \cup { Sentences(3, 90, "\n\n"), Sentences(2, 30, "\n\n"), Sentences(4, 70, "\n"),
           "1. " \o Sentences(4, 130, " "), "short. text! here? yes.", "" }

\* a content of 900 characters with a single sentence end, at index a
PaceText(a) == Fill("x", a) \o ". " \o Fill("y", 898 - a)

\* contents for _adjust_pace: the sentence end on both sides of the
\* midpoint 450 and of the distance 50 from it, two sentence ends at unequal
\* distances around the midpoint, contents of four and more sentences and
\* of three paragraphs, and contents of at most 800 characters
PaceTexts ==
    { PaceText(a) : a \in {398, 399, 400, 401, 449, 450, 451, 498, 499, 500, 501} }
    \cup { Fill("x", 430) \o ". " \o Fill("y", 40) \o ". " \o Fill("z", 426),
           Fill("x", 440) \o "! " \o Fill("y", 15) \o "? " \o Fill("z", 441),
           Fill("x", 349) \o ". " \o Fill("y", 449),
           Fill("x", 349) \o ". " \o Fill("y", 450) }
    \cup { Sentences(k, 150, " ") : k \in 1..MaxSentences + 1 }
    \cup { Sentences(k, 70, " ") : k \in 1..MaxSentences }
    \cup { Sentences(3, 300, "\n\n"), Sentences(3, 90, "\n\n"), "" }

ChangeRepresentation ==
    log = <<>> /\ \E content \in ChangeTexts : call_change_representation(content, 2)

AdjustPace ==
    log = <<>> /\ \E content \in PaceTexts : call_adjust_pace(content, 2)

NextText == SimplifyText \/ SimplifyAgain \/ ChangeRepresentation \/ AdjustPace

SpecText == Init /\ [][NextText]_vars

(***************************************************************************)
(* Properties.                                                             *)
(***************************************************************************)
\* two responses of the log, to the same endpoint
SameEndpoint(i, j, op) ==
    /\ i \in DOMAIN log /\ j \in DOMAIN log
    /\ log[i].op = op /\ log[j].op = op

HashedEndpoints == {"detect-bias", "generate-adaptation"}

\* C1: two detect-bias calls with the same content_text, interaction_patterns
\* and session token return the same audit hash, and so do two
\* generate-adaptation calls with the same original_content, requested types,
\* interaction signals and session token.
C1_AuditHashDeterministic ==
    \A op \in HashedEndpoints : \A i, j \in DOMAIN log :
        (SameEndpoint(i, j, op) /\ log[i].req = log[j].req)
            => log[i].res.deterministic_hash = log[j].res.deterministic_hash

\* the same detect-bias request answered twice, at different times, with
\* indicators found
C1_Witness ==
    /\ Len(log) = 2
    /\ SameEndpoint(1, 2, "detect-bias")
    /\ log[1].req = log[2].req
    /\ log[1].res.analysis_timestamp # log[2].res.analysis_timestamp
    /\ log[1].res.indicators # <<>>

\* C2: two calls of the same endpoint with equal requests return results that
\* are equal in every field (the order of recommended_actions, the key
\* concepts of the example section, the audit and metadata fields).
C2_IdenticalOutputs ==
    \A op \in HashedEndpoints : \A i, j \in DOMAIN log :
        (SameEndpoint(i, j, op) /\ log[i].req = log[j].req)
            => log[i].res = log[j].res

\* what a freshly started service can answer to the request of a log entry
AnswersAlone(e) ==
    CASE e.op = "analyze-interaction" ->
            {analyze_single_interaction(InteractionAnalyzer, e.req)}
      [] e.op = "detect-bias" ->
            {detect_bias(BiasDetector, e.req, now, seed) :
                now \in {e.res.analysis_timestamp}, seed \in Seeds}
      [] e.op = "generate-adaptation" ->
            {generate_adaptation(AdaptiveEngine, e.req, seed) : seed \in Seeds}

\* C3: no invocation changes state that another invocation reads: the three
\* shared instances stay as constructed, and every response, whatever
\* requests were served before it, is the one its request gets when served
\* alone.
C3_NoSharedMutableState ==
    /\ interaction_analyzer = InteractionAnalyzer
    /\ bias_detector = BiasDetector
    /\ adaptive_engine = AdaptiveEngine
    /\ \A i \in DOMAIN log : log[i].res \in AnswersAlone(log[i])

\* a detect-bias response that found bias, sent after an analyze-interaction
\* response
C3_Witness ==
    /\ Len(log) = 2
    /\ log[1].op = "analyze-interaction"
    /\ log[2].op = "detect-bias"
    /\ log[2].res.bias_detected

\* C4: with the digest collision-free, two detect-bias calls that differ in
\* the content text or in the detected indicator types return different
\* audit hashes, and so do two generate-adaptation calls that differ in the
\* original content or in the produced adaptation types (the types taken as
\* a collection, whatever their order).
C4_HashSeparates ==
    /\ \A i, j \in DOMAIN log :
        (/\ SameEndpoint(i, j, "detect-bias")
         /\ \/ log[i].req.content_text.id # log[j].req.content_text.id
            \/ TypesOf(log[i].res.indicators, "bias_type")
                    # TypesOf(log[j].res.indicators, "bias_type"))
            => log[i].res.deterministic_hash # log[j].res.deterministic_hash
    /\ \A i, j \in DOMAIN log :
        (/\ SameEndpoint(i, j, "generate-adaptation")
         /\ \/ log[i].req.original_content.id # log[j].req.original_content.id
            \/ sorted(TypesOf(log[i].res.adaptations, "adaptation_type"))
                    # sorted(TypesOf(log[j].res.adaptations, "adaptation_type")))
            => log[i].res.deterministic_hash # log[j].res.deterministic_hash

\* two detect-bias calls on the same text that found as many indicators, of
\* different types
C4_Witness ==
    /\ Len(log) = 2
    /\ SameEndpoint(1, 2, "detect-bias")
    /\ log[1].req.content_text = log[2].req.content_text
    /\ Len(log[1].res.indicators) = Len(log[2].res.indicators)
    /\ TypesOf(log[1].res.indicators, "bias_type")
            # TypesOf(log[2].res.indicators, "bias_type")

LevelRank(level) ==
    CASE level = "simple" -> 1 [] level = "moderate" -> 2 [] level = "complex" -> 3

\* C5: complexity_level is "simple" for every grade <= 6, "moderate" for
\* 6 < grade <= 10 and "complex" for grade > 10 (6.0 -> simple,
\* 6.01 -> moderate, 10.0 -> moderate, 10.01 -> complex), and it is monotone
\* non-decreasing in the grade.  Grades are in hundredths.
C5_ComplexityLevel ==
    /\ \A i \in DOMAIN log :
        LET grade == log[i].res.readability_score
            level == log[i].res.complexity_level
        IN  /\ (grade <= 600) <=> (level = "simple")
            /\ (600 < grade /\ grade <= 1000) <=> (level = "moderate")
            /\ (grade > 1000) <=> (level = "complex")
    /\ \A i, j \in DOMAIN log :
        log[i].res.readability_score <= log[j].res.readability_score
            => LevelRank(log[i].res.complexity_level)
                    <= LevelRank(log[j].res.complexity_level)

\* the texts of grade 6.0 and 6.01, one after the other
C5_Witness ==
    /\ Len(log) = 2
    /\ log[1].res.readability_score = 600 /\ log[1].res.complexity_level = "simple"
    /\ log[2].res.readability_score = 601 /\ log[2].res.complexity_level = "moderate"

\* the responses of analyze-interaction in the log
Analyses == {i \in DOMAIN log : log[i].op = "analyze-interaction"}

\* C6 as stated: response_pattern is "seeking_help" if action_type is
\* clarification; otherwise "deliberate" if response_time_ms >= 10000;
\* otherwise "quick" if response_time_ms <= 1000; otherwise "normal".
C6_ResponsePatternInclusive ==
    \A i \in Analyses :
        log[i].res.response_pattern =
            IF log[i].req.action_type = "clarification" THEN "seeking_help"
            ELSE IF log[i].req.response_time_ms >= 10000 THEN "deliberate"
            ELSE IF log[i].req.response_time_ms <= 1000 THEN "quick"
            ELSE "normal"

\* C6 amended: response_pattern is "seeking_help" if action_type is
\* clarification; otherwise "deliberate" if response_time_ms > 10000;
\* otherwise "quick" if response_time_ms < 1000; otherwise "normal"; the
\* boundary values 10000 and 1000 are "normal".
C6_ResponsePattern ==
    \A i \in Analyses :
        log[i].res.response_pattern =
            IF log[i].req.action_type = "clarification" THEN "seeking_help"
            ELSE IF log[i].req.response_time_ms > 10000 THEN "deliberate"
            ELSE IF log[i].req.response_time_ms < 1000 THEN "quick"
            ELSE "normal"

\* a read that took exactly 10000 ms, classified
C6_Witness ==
    \E i \in Analyses :
        /\ log[i].req.response_time_ms = 10000
        /\ log[i].req.action_type = "read"
        /\ log[i].res.response_pattern = "normal"

C8_SuggestedAdaptations ==
    \A i \in Analyses :
        LET req == log[i].req
            res == log[i].res
            taking_time == res.comprehension_indicators.response_speed = "taking_time"
        IN  /\ res.requires_adaptation <=> (res.suggested_adaptations # <<>>)
            /\ res.requires_adaptation
                <=> (taking_time \/ req.is_repeated_error
                     \/ req.clarification_count >= 3)
            /\ res.suggested_adaptations =
                (IF taking_time THEN <<"simplify_language">> ELSE <<>>)
                \o (IF req.is_repeated_error
                    THEN <<"add_examples", "change_representation">> ELSE <<>>)
                \o (IF req.clarification_count >= 3
                    THEN <<"simplify_language">> ELSE <<>>)

\* a slow repeated error with three clarifications: all three rules fire and
\* simplify-language is suggested twice
C8_Witness ==
    \E i \in Analyses :
        log[i].res.suggested_adaptations =
            <<"simplify_language", "add_examples", "change_representation",
              "simplify_language">>

\* C9: a record whose response_time_ms exceeds the slow threshold and whose
\* action_type is not clarification gets response_pattern "deliberate",
\* response_speed "taking_time" and requires_adaptation = true; so
\* response_pattern "deliberate" always implies requires_adaptation.
C9_DeliberateRequiresAdaptation ==
    \A i \in Analyses :
        /\ (/\ log[i].req.response_time_ms > DEFAULT_SLOW_RESPONSE_MS
            /\ log[i].req.action_type # "clarification")
            => /\ log[i].res.response_pattern = "deliberate"
               /\ log[i].res.comprehension_indicators.response_speed = "taking_time"
               /\ log[i].res.requires_adaptation
        /\ log[i].res.response_pattern = "deliberate" => log[i].res.requires_adaptation

\* a slow read with no repeated error and no clarification, found deliberate
C9_Witness ==
    \E i \in Analyses :
        /\ log[i].req.response_time_ms = 25000
        /\ log[i].req.action_type = "read"
        /\ ~log[i].req.is_repeated_error
        /\ log[i].req.clarification_count = 0
        /\ log[i].res.response_pattern = "deliberate"
        /\ log[i].res.requires_adaptation

\* C10: every record classified "seeking_help" has engagement_level "high"
\* and comprehension_indicators.help_seeking = true.
C10_HelpSeekingIsEngagement ==
    \A i \in Analyses :
        log[i].res.response_pattern = "seeking_help"
            => /\ log[i].res.engagement_level = "high"
               /\ log[i].res.comprehension_indicators.help_seeking

\* the responses of the sequence analysis in the log
SequenceAnalyses == {i \in DOMAIN log : log[i].op = "analyze-interaction-sequence"}

ResponseTimesOf(interactions) ==
    [i \in DOMAIN interactions |-> interactions[i].response_time_ms]

\* the trend of a list of response times, the means compared exactly: the
\* second-half mean is below 90% of the first-half mean, above 110% of it,
\* or neither
ExactTrend(values) ==
    LET midpoint == Len(values) \div 2
        first == SumSeq(SubSeq(values, 1, midpoint))
        second == SumSeq(SubSeq(values, midpoint + 1, Len(values)))
    IN  IF Len(values) < 3 THEN "insufficient_data"
        ELSE IF 10 * second * midpoint < 9 * first * (Len(values) - midpoint)
        THEN "improving"
        ELSE IF 10 * second * midpoint > 11 * first * (Len(values) - midpoint)
        THEN "struggling"
        ELSE "stable"

\* C11: for a non-empty record sequence the summary and urgency follow the
\* first rule that holds: mean response time > slow threshold ->
\* struggling/high; repeated-error ratio > 0.3 -> persistent_difficulty/high;
\* total clarifications > 2 x record count -> needs_clarification/medium;
\* trend improving -> progressing/low; otherwise stable/low.
C11_SequencePriority ==
    \A i \in SequenceAnalyses :
        LET records == log[i].req
            res == log[i].res
            n == Len(records)
            total_time == SumSeq(ResponseTimesOf(records))
            errors == Cardinality({k \in DOMAIN records : records[k].is_repeated_error})
            clarifications ==
                SumSeq([k \in DOMAIN records |-> records[k].clarification_count])
        IN  n > 0 =>
                <<res.pattern_summary, res.adaptation_urgency>> =
                    IF total_time > DEFAULT_SLOW_RESPONSE_MS * n
                    THEN <<"struggling", "high">>
                    ELSE IF 10 * errors > 3 * n
                    THEN <<"persistent_difficulty", "high">>
                    ELSE IF clarifications > 2 * n
                    THEN <<"needs_clarification", "medium">>
                    ELSE IF res.trend = "improving"
                    THEN <<"progressing", "low">>
                    ELSE <<"stable", "low">>

\* a slow sequence with repeated errors, many clarifications and an
\* improving trend: all four rules hold and the first one wins
C11_Witness ==
    \E i \in SequenceAnalyses :
        /\ log[i].req = InteractionSequence(<<25000, 20000, 5000>>, 3, <<2, 1>>)
        /\ log[i].res.trend = "improving"
        /\ log[i].res.pattern_summary = "struggling"
        /\ log[i].res.adaptation_urgency = "high"

\* C12: the trend of a sequence of response times is "insufficient_data"
\* for fewer than 3 records; otherwise, split at floor(n/2), "improving"
\* when the second-half mean is more than 10% below the first-half mean,
\* "struggling" when it is more than 10% above, "stable" otherwise; a change
\* of exactly 10% is stable.
C12_Trend ==
    \A i \in SequenceAnalyses :
        log[i].req # <<>>
            => log[i].res.trend = ExactTrend(ResponseTimesOf(log[i].req))

\* the indicators of the given type in a detect-bias result
IndicatorsOfType(res, bias_type) ==
    {k \in DOMAIN res.indicators : res.indicators[k].bias_type = bias_type}

\* the indicators of the grade-threshold check
GradeIndicators(res) ==
    {k \in DOMAIN res.indicators :
        res.indicators[k].description.template
            \in {"Content readability at grade level", "Content at grade level"}}

\* C13: degenerate inputs give the neutral result and never raise: a text
\* whose stripped length is below 10 gets the baseline metrics (grade 0,
\* ease 100, the others 0), readability 0, complexity_level "simple" and no
\* grade-threshold indicator; an empty interaction_patterns list gives no
\* pace_mismatch and no prior_exposure_gap indicator; an empty record
\* sequence gives pattern_summary "insufficient_data".
C13_DegenerateInputs ==
    \A i \in DOMAIN log :
        LET req == log[i].req
            res == log[i].res
        IN  /\ "raised" \notin DOMAIN res
            /\ (log[i].op = "detect-bias" /\ req.content_text.stripped_len < 10)
                => /\ res.readability_score = 0
                   /\ res.complexity_level = "simple"
                   /\ GradeIndicators(res) = {}
                   /\ get_readability_metrics(req.content_text) =
                        [ flesch_kincaid_grade |-> 0, flesch_reading_ease |-> 10000,
                          gunning_fog |-> 0, smog_index |-> 0,
                          automated_readability_index |-> 0,
                          coleman_liau_index |-> 0, dale_chall_readability |-> 0 ]
            /\ (log[i].op = "detect-bias" /\ req.interaction_patterns = <<>>)
                => /\ IndicatorsOfType(res, "pace_mismatch") = {}
                   /\ IndicatorsOfType(res, "prior_exposure_gap") = {}
            /\ (log[i].op = "analyze-interaction-sequence" /\ req = <<>>)
                => res.pattern_summary = "insufficient_data"

\* the empty record sequence analysed, then a text of nine characters
\* between spaces checked with no interaction patterns
C13_Witness ==
    /\ Len(log) = 2
    /\ log[1].op = "analyze-interaction-sequence"
    /\ log[1].req = <<>>
    /\ log[1].res.pattern_summary = "insufficient_data"
    /\ log[2].op = "detect-bias"
    /\ log[2].req.content_text = padded_text
    /\ log[2].req.interaction_patterns = <<>>
    /\ log[2].res.readability_score = 0
    /\ ~log[2].res.bias_detected

\* the responses of detect-bias in the log
Detections == {i \in DOMAIN log : log[i].op = "detect-bias"}

\* the place of a bias type in the detection sequence
DetectionRank(bias_type) ==
    CASE bias_type = "language_complexity" -> 1
      [] bias_type = "pace_mismatch" -> 2
      [] bias_type = "prior_exposure_gap" -> 3
      [] bias_type = "representation_issue" -> 4

\* C14: the indicator list of every detect-bias result is in detection
\* order: language_complexity indicators, then pace_mismatch, then
\* prior_exposure_gap, then representation_issue; and it holds at most one
\* pace_mismatch indicator.
C14_IndicatorOrder ==
    \A i \in Detections :
        LET indicators == log[i].res.indicators
        IN  /\ \A a, b \in DOMAIN indicators :
                a < b => DetectionRank(indicators[a].bias_type)
                            <= DetectionRank(indicators[b].bias_type)
            /\ Cardinality(IndicatorsOfType(log[i].res, "pace_mismatch")) <= 1

\* a result with indicators of all four types, more than one of three of
\* them, for patterns of which more than half are slow
C14_Witness ==
    \E i \in Detections :
        /\ Cardinality(IndicatorsOfType(log[i].res, "language_complexity")) = 4
        /\ Cardinality(IndicatorsOfType(log[i].res, "pace_mismatch")) = 1
        /\ Cardinality(IndicatorsOfType(log[i].res, "prior_exposure_gap")) = 2
        /\ Cardinality(IndicatorsOfType(log[i].res, "representation_issue")) = 2

\* the indicators of a result whose description starts with the given text
IndicatorsSaying(res, template) ==
    {k \in DOMAIN res.indicators : res.indicators[k].description.template = template}

\* every indicator of the set has the given severity and confidence
AllRated(res, indices, severity, confidence) ==
    \A k \in indices :
        /\ res.indicators[k].bias_type = "language_complexity"
        /\ res.indicators[k].severity = severity
        /\ res.indicators[k].confidence = confidence

C16_PaceMismatch ==
    \A i \in Detections :
        LET patterns == log[i].req.interaction_patterns
            timed == {k \in DOMAIN patterns : "response_time_ms" \in DOMAIN patterns[k]}
            slow == {k \in timed : patterns[k].response_time_ms > 15000}
            pace == IndicatorsOfType(log[i].res, "pace_mismatch")
            severities == {log[i].res.indicators[k].severity : k \in pace}
        IN  /\ timed # {} /\ 10 * Cardinality(slow) > 5 * Cardinality(timed)
                => Cardinality(pace) = 1 /\ severities = {"high"}
            /\ (/\ timed # {}
                /\ 10 * Cardinality(slow) > 3 * Cardinality(timed)
                /\ 10 * Cardinality(slow) <= 5 * Cardinality(timed))
                => Cardinality(pace) = 1 /\ severities = {"medium"}
            /\ (timed = {} \/ 10 * Cardinality(slow) <= 3 * Cardinality(timed))
                => pace = {}

\* one slow response and two patterns without response_time_ms: the
\* fraction is 1 of 1 and the indicator is HIGH
C16_Witness ==
    \E i \in Detections :
        /\ log[i].req.interaction_patterns
            = << slow_pattern, [clarification_count |-> 1], [clarification_count |-> 1] >>
        /\ \E k \in IndicatorsOfType(log[i].res, "pace_mismatch") :
                log[i].res.indicators[k].severity = "high"

\* the severities of the indicators of a type, in the order of the result
SeveritiesOfType(res, bias_type) ==
    LET found == SelectSeq(res.indicators, LAMBDA x : x.bias_type = bias_type)
    IN  [k \in DOMAIN found |-> found[k].severity]

\* C17: for a non-empty interaction_patterns list of n entries, a missing
\* clarification_count counting as 0 and a missing is_repeated_error as
\* false: a HIGH prior_exposure_gap indicator exactly when
\* sum(clarification_count)/n > 1.5, a MEDIUM one exactly when
\* count(is_repeated_error)/n > 0.4, each whatever the other, HIGH first.
C17_PriorExposureGap ==
    \A i \in Detections :
        LET patterns == log[i].req.interaction_patterns
            n == Len(patterns)
            clarifications ==
                SumSeq([k \in DOMAIN patterns |->
                          IF "clarification_count" \in DOMAIN patterns[k]
                          THEN patterns[k].clarification_count ELSE 0])
            errors ==
                Cardinality({k \in DOMAIN patterns :
                                /\ "is_repeated_error" \in DOMAIN patterns[k]
                                /\ patterns[k].is_repeated_error})
        IN  n > 0 =>
                SeveritiesOfType(log[i].res, "prior_exposure_gap")
                    = (IF 10 * clarifications > 15 * n THEN <<"high">> ELSE <<>>)
                      \o (IF 10 * errors > 4 * n THEN <<"medium">> ELSE <<>>)

\* two patterns with two clarifications each, both repeated errors: both
\* indicators, HIGH first
C17_Witness ==
    \E i \in Detections :
        /\ log[i].req.interaction_patterns = struggling_patterns
        /\ SeveritiesOfType(log[i].res, "prior_exposure_gap") = <<"high", "medium">>

\* the bias types found in a result
TypesFound(res) == {res.indicators[k].bias_type : k \in DOMAIN res.indicators}

\* C18: recommended_actions is, as a set and without duplicates, the union
\* over the emitted indicators of: language_complexity -> simplify-language;
\* pace_mismatch -> adjust-pace; prior_exposure_gap -> add-examples and
\* simplify-language; representation_issue -> add-examples and
\* change-representation; nothing else appears.
C18_Recommendations ==
    \A i \in Detections :
        LET res == log[i].res
            found == TypesFound(res)
            expected ==
                (IF "language_complexity" \in found THEN {"simplify_language"} ELSE {})
                \cup (IF "pace_mismatch" \in found THEN {"adjust_pace"} ELSE {})
                \cup (IF "prior_exposure_gap" \in found
                      THEN {"add_examples", "simplify_language"} ELSE {})
                \cup (IF "representation_issue" \in found
                      THEN {"add_examples", "change_representation"} ELSE {})
        IN  /\ Range(res.recommended_actions) = expected
            /\ Len(res.recommended_actions) = Cardinality(expected)

\* prior exposure gaps alone: add-examples and simplify-language
C18_Witness ==
    \E i \in Detections :
        /\ TypesFound(log[i].res) = {"prior_exposure_gap"}
        /\ Range(log[i].res.recommended_actions) = {"add_examples", "simplify_language"}
        /\ Len(log[i].res.recommended_actions) = 2

\* C19: in every detect-bias result bias_detected is true exactly when the
\* indicator list is non-empty, and that is exactly when
\* recommended_actions is non-empty.
C19_BiasDetected ==
    \A i \in Detections :
        /\ log[i].res.bias_detected <=> (log[i].res.indicators # <<>>)
        /\ (log[i].res.indicators # <<>>) <=> (log[i].res.recommended_actions # <<>>)

\* a pace mismatch alone, which is bias detected and has its recommendation
C19_Witness ==
    \E i \in Detections :
        /\ TypesFound(log[i].res) = {"pace_mismatch"}
        /\ log[i].res.bias_detected
        /\ log[i].res.recommended_actions = <<"adjust_pace">>

\* C20: a detect-bias result whose complexity_level is "simple" carries no
\* language_complexity indicator.
C20_SimpleTextUnflagged ==
    \A i \in Detections :
        log[i].res.complexity_level = "simple"
            => IndicatorsOfType(log[i].res, "language_complexity") = {}

\* C21: a result of complexity_level "complex" (grade > 10) has bias_detected
\* true and carries a grade-threshold language_complexity indicator of
\* severity MEDIUM or HIGH; a result with the HIGH grade-threshold indicator
\* has complexity_level "complex".
C21_ComplexIsFlagged ==
    \A i \in Detections :
        LET res == log[i].res
            graded == {k \in GradeIndicators(res) :
                          /\ res.indicators[k].bias_type = "language_complexity"
                          /\ res.indicators[k].severity \in {"medium", "high"}}
        IN  /\ res.complexity_level = "complex"
                => res.readability_score > 1000 /\ res.bias_detected /\ graded # {}
            /\ (\E k \in GradeIndicators(res) : res.indicators[k].severity = "high")
                => res.complexity_level = "complex"

\* grade 10.01 is "complex" with the MEDIUM indicator next to grade 12.0,
\* "complex" with the HIGH one
C21_Witness ==
    /\ Len(log) = 2
    /\ Detections = {1, 2}
    /\ log[1].res.readability_score = 1001
    /\ log[1].res.complexity_level = "complex"
    /\ \E k \in GradeIndicators(log[1].res) : log[1].res.indicators[k].severity = "medium"
    /\ log[2].res.readability_score = 1200
    /\ log[2].res.complexity_level = "complex"
    /\ \E k \in GradeIndicators(log[2].res) : log[2].res.indicators[k].severity = "high"

\* the responses of generate-adaptation in the log
Generations == {i \in DOMAIN log : log[i].op = "generate-adaptation"}

\* the adaptations of the given type in a result
AdaptationsOfType(res, adaptation_type) ==
    {k \in DOMAIN res.adaptations : res.adaptations[k].adaptation_type = adaptation_type}

\* C22: simplify-language uses level "simple" exactly when
\* clarification_count > 3 (a missing count is 0) and "moderate" otherwise;
\* the complexity label of the AdaptedContent is the level used; a count of
\* 3 gives moderate, 4 gives simple.
C22_SimplificationLevel ==
    \A i \in Generations :
        LET signals == log[i].req.interaction_signals
            count == IF "clarification_count" \in DOMAIN signals
                     THEN signals.clarification_count ELSE 0
            level == IF count > 3 THEN "simple" ELSE "moderate"
        IN  \A k \in AdaptationsOfType(log[i].res, "simplify_language") :
                /\ log[i].res.adaptations[k].complexity_level = level
                /\ log[i].res.adaptations[k].content
                    = <<log[i].req.original_content.id, "simplify_text", level>>

\* three clarifications: a moderate simplification
C22_Witness ==
    \E i \in Generations :
        /\ log[i].req.interaction_signals = [clarification_count |-> 3]
        /\ log[i].req.requested_adaptations = <<"simplify_language">>
        /\ log[i].res.adaptations[1].complexity_level = "moderate"

\* C23: generate-adaptation returns one AdaptedContent per requested type,
\* in request order and of the requested type at each position, duplicates
\* included; each transform works on the original content: what a request
\* yields for a type is what the request for that type alone yields.
C23_OnePerRequestedType ==
    \A i \in Generations :
        LET req == log[i].req
            res == log[i].res
        IN  /\ Len(res.adaptations) = Len(req.requested_adaptations)
            /\ \A k \in DOMAIN res.adaptations :
                   res.adaptations[k].adaptation_type = req.requested_adaptations[k]
            /\ \A j \in Generations, k \in DOMAIN req.requested_adaptations :
                   /\ log[j].req.original_content = req.original_content
                   /\ log[j].req.interaction_signals = req.interaction_signals
                   /\ log[j].req.requested_adaptations
                       = <<req.requested_adaptations[k]>>
                   => res.adaptations[k] = log[j].res.adaptations[1]

\* simplify-language requested after change-representation, next to
\* simplify-language requested alone
C23_Witness ==
    /\ Len(log) = 2
    /\ Generations = {1, 2}
    /\ log[1].req.requested_adaptations = <<"change_representation", "simplify_language">>
    /\ log[2].req.requested_adaptations = <<"simplify_language">>
    /\ log[1].req.original_content = log[2].req.original_content
    /\ log[1].req.interaction_signals = log[2].req.interaction_signals
    /\ log[1].res.adaptations[2] = log[2].res.adaptations[1]

\* the types that the signals of a request give priority
PrioritySet(signals) ==
    { t \in {"simplify_language", "add_examples", "adjust_pace"} :
        \/ /\ t = "simplify_language"
           /\ "clarification_count" \in DOMAIN signals
           /\ signals.clarification_count > 2
        \/ /\ t = "add_examples"
           /\ "is_repeated_error" \in DOMAIN signals
           /\ signals.is_repeated_error
        \/ /\ t = "adjust_pace"
           /\ "response_time_ms" \in DOMAIN signals
           /\ signals.response_time_ms > 15000 }

\* C24: primary_recommendation is the first adaptation, in generation
\* order, whose type is in the priority set (simplify-language if
\* clarification_count > 2, add-examples if is_repeated_error, adjust-pace if
\* response_time_ms > 15000); the first adaptation if no type is in the set;
\* absent only when no adaptation was generated.
C24_PrimaryRecommendation ==
    \A i \in Generations :
        LET res == log[i].res
            priority == PrioritySet(log[i].req.interaction_signals)
            matching == {k \in DOMAIN res.adaptations :
                            res.adaptations[k].adaptation_type \in priority}
            primary == res.primary_recommendation
        IN  /\ (primary = <<>>) <=> (res.adaptations = <<>>)
            /\ res.adaptations # <<>> =>
                \E k \in DOMAIN res.adaptations :
                    /\ primary = <<res.adaptations[k]>>
                    /\ IF matching = {} THEN k = 1
                       ELSE k \in matching /\ \A m \in matching : k <= m
                    /\ res.adaptations[k].adaptation_type = "change_representation"
                        => k = 1 /\ matching = {}

\* a slow response alone: adjust-pace, generated third, is the primary one
C24_Witness ==
    \E i \in Generations :
        /\ log[i].req.interaction_signals = [response_time_ms |-> 15001]
        /\ log[i].req.requested_adaptations
            = <<"change_representation", "add_examples", "adjust_pace",
                "simplify_language">>
        /\ log[i].res.primary_recommendation = <<log[i].res.adaptations[3]>>

\* the two lists hold the same values the same number of times
SameMultiset(s, t) ==
    \A v \in Range(s) \cup Range(t) :
        Cardinality({k \in DOMAIN s : s[k] = v}) = Cardinality({k \in DOMAIN t : t[k] = v})

\* C30: the audit hash depends only on the session token, the content and
\* the sorted type names: two generate-adaptation requests for the same
\* session and content whose requested types are permutations of each other
\* get the same hash whatever their interaction_signals, and two detect-bias
\* requests for the same session and content whose indicators have the same
\* multiset of types get the same hash whatever their interaction_patterns.
C30_HashInputs ==
    \A i, j \in DOMAIN log :
        /\ ( /\ i \in Generations /\ j \in Generations
             /\ log[i].req.session_hash = log[j].req.session_hash
             /\ log[i].req.original_content = log[j].req.original_content
             /\ SameMultiset(log[i].req.requested_adaptations,
                             log[j].req.requested_adaptations) )
            => log[i].res.deterministic_hash = log[j].res.deterministic_hash
        /\ ( /\ i \in Detections /\ j \in Detections
             /\ log[i].req.session_hash = log[j].req.session_hash
             /\ log[i].req.content_text = log[j].req.content_text
             /\ SameMultiset(TypesOf(log[i].res.indicators, "bias_type"),
                             TypesOf(log[j].res.indicators, "bias_type")) )
            => log[i].res.deterministic_hash = log[j].res.deterministic_hash

\* the same two types in either order, with different signals
C30_Witness ==
    /\ Len(log) = 2
    /\ Generations = {1, 2}
    /\ log[1].req.requested_adaptations = <<"change_representation", "simplify_language">>
    /\ log[2].req.requested_adaptations = <<"simplify_language", "change_representation">>
    /\ log[1].req.original_content = log[2].req.original_content
    /\ log[1].req.interaction_signals = <<>>
    /\ log[2].req.interaction_signals = [clarification_count |-> 4]
    /\ log[1].res.adaptations[2] # log[2].res.adaptations[1]
    /\ log[1].res.deterministic_hash = log[2].res.deterministic_hash

\* the responses of simplify-text that carry a simplified text
Simplifications ==
    {i \in DOMAIN log : log[i].op = "simplify-text" /\ "simplified" \in DOMAIN log[i].res}

IsLetter(c) == c \in DOMAIN LowerOf \/ c \in {LowerOf[u] : u \in DOMAIN LowerOf}

\* the words of a text: its maximal runs of letters
LetterWords(text) ==
    { SubSeq(text, p[1], p[2]) :
        p \in { q \in (1..Len(text)) \X (1..Len(text)) :
                  /\ q[1] <= q[2]
                  /\ q[1] = 1 \/ ~IsLetter(CharAt(text, q[1] - 1))
                  /\ q[2] = Len(text) \/ ~IsLetter(CharAt(text, q[2] + 1))
                  /\ \A k \in q[1]..q[2] : IsLetter(CharAt(text, k)) } }

\* the word holds a key of the table without being that key
HoldsKey(word) ==
    \E r \in DOMAIN replacements :
        /\ Len(word) > Len(replacements[r][1])
        /\ \E i \in 1..Len(word) : MatchesAt(replacements[r][1], word, i)

\* C25: simplify substitutes whole words and phrases only: a longer word
\* that merely contains a key of the table ("implementation" holds
\* "implement", "performance" holds "perform") is left unchanged.
C25_WholePhraseOnly ==
    \A i \in Simplifications :
        \A word \in LetterWords(log[i].res.original) :
            HoldsKey(word) => word \in LetterWords(log[i].res.simplified)

\* C26: simplify at level moderate is idempotent: handed its own output, it
\* returns it unchanged.
C26_ModerateIdempotent ==
    ( /\ Simplifications = {1, 2}
      /\ log[1].res.level = "moderate" /\ log[2].res.level = "moderate"
      /\ log[2].res.original = log[1].res.simplified )
    => log[2].res.simplified = log[1].res.simplified

\* C27: simplify at level simple is idempotent on its own output: the
\* second run splits no sentence and changes no whitespace or punctuation.
C27_SimpleIdempotent ==
    ( /\ Simplifications = {1, 2}
      /\ log[1].res.level = "simple" /\ log[2].res.level = "simple"
      /\ log[2].res.original = log[1].res.simplified )
    => /\ log[2].res.simplified = log[1].res.simplified
       /\ \A k \in DOMAIN re_split_ends(log[1].res.simplified) :
              Len(split(re_split_ends(log[1].res.simplified)[k])) <= 20

Templates(adapted) ==
    {adapted.changes_made[k].template : k \in DOMAIN adapted.changes_made}

EndsWith(content, suffix) ==
    /\ Len(suffix) <= Len(content)
    /\ From(content, Len(content) - Len(suffix) + 1) = suffix

\* C28: in change-representation the structural step runs only if the
\* content still lacks list markers after the bullet conversion: whenever
\* the bullet conversion has changed the content, no structural
\* organization is added and the result keeps one bullet per line.
C28_StructureOnlyWithoutBullets ==
    \A i \in DOMAIN log :
        ( /\ log[i].op = "change-representation"
          /\ "Converted dense text to bullet points" \in Templates(log[i].res) )
        => /\ "Added structural organization" \notin Templates(log[i].res)
           /\ EndsWith(log[i].res.content, _convert_to_bullets(log[i].req))

\* the positions at which the marker starts in the content
Occurrences(marker, content) ==
    {j \in 1..(Len(content) - Len(marker) + 1) :
        SubSeq(content, j, j + Len(marker) - 1) = marker}

\* the content without its first occurrence of the marker
Without(marker, content) ==
    LET at == Occurrences(marker, content)
    IN  IF at = {} THEN content
        ELSE SubSeq(content, 1, Min(at) - 1) \o From(content, Min(at) + Len(marker))

Distance(a, b) == IF a < b THEN b - a ELSE a - b

\* C29: in adjust-pace, for content longer than 800 characters, whenever a
\* sentence end lies within 50 characters before or after the midpoint of
\* the text, the "Pause and reflect" prompt stands directly after the
\* sentence end nearest the midpoint; the text is unmarked only when the
\* whole window holds no sentence end.
C29_ReflectionAtNearestBoundary ==
    \A i \in DOMAIN log :
        (log[i].op = "adjust-pace" /\ Len(log[i].req) > 800)
        => LET result == log[i].res.content
               paced == Without(REFLECTION, result)
               midpoint == Len(paced) \div 2
               window == {p \in 1..Len(paced) :
                             /\ IsSentenceEnd(CharAt(paced, p))
                             /\ Distance(p - 1, midpoint) <= 50}
               nearest == {p \in window : \A q \in window :
                              Distance(p - 1, midpoint) <= Distance(q - 1, midpoint)}
           IN  IF window = {} THEN Occurrences(REFLECTION, result) = {}
               ELSE \E p \in nearest : Occurrences(REFLECTION, result) = {p + 1}

====
